---- MODULE Spec2Model ----
(***************************************************************************)
(* Cross-file symbol resolution of the Python route scanner:               *)
(*   scanner/__main__.py      ProjectScanner (scan, resolve, traversal)    *)
(*   scanner/core/resolver.py ImportResolver, TypeResolver                 *)
(*   scanner/core/visitor.py  ASTVisitor (per-file fact extraction)        *)
(*   scanner/deps.py          dependency graph and folder aggregation      *)
(*                                                                         *)
(* Python strings are modelled as sequences of tokens.  A token is either  *)
(* one of the separator characters "/", "." and ":" or an atom standing    *)
(* for a run of characters that contains none of them; "" is <<>>.         *)
(* The suffix ".py" of a file name is the single token ".py".              *)
(***************************************************************************)
EXTENDS Integers, Sequences, FiniteSets

VARIABLES
    tree,                     \* the scanned directory: file key -> source
    walk,                     \* os.walk order: file keys still to be scanned
    files,                    \* ProjectScanner.files (Fact Store), insertion-ordered
    global_includes_children, \* ProjectScanner.global_includes_children
    parent_child,             \* ProjectScanner.parent_child, insertion-ordered dict
    endpoints,                \* ProjectScanner.endpoints (references to RouteDef objects)
    apps,                     \* entry points of resolve() still to be traversed
    stack,                    \* activation records of _resolve_router
    visited,                  \* the visited set of the running traversal
    pc,                       \* position of main()
    output,                   \* what main() prints
    jn,                       \* path-join harness: operands and result
    ir,                       \* import-resolver harness
    ty,                       \* type-resolver harness
    gr,                       \* dependency-graph harness
    fm,                       \* model-field resolution harness: call stack of find_model_fields
    fz                        \* route finalization harness

vars == << tree, walk, files, global_includes_children, parent_child, endpoints,
           apps, stack, visited, pc, output, jn, ir, ty, gr, fm, fz >>

scanVars == << tree, walk, files, global_includes_children, parent_child,
               endpoints, apps, stack, visited, pc, output >>

(***************************************************************************)
(* Bounds                                                                  *)
(***************************************************************************)
MaxSlashes == 2
MaxJoins == 1
\* depth of nested _resolve_router calls at which the interpreter gives up
\* (RecursionError); larger than the number of routers of any project
MaxDepth == 8
MaxParts == 4
MaxFiles == 40

(***************************************************************************)
(* Strings                                                                 *)
(***************************************************************************)
None == << "<None>" >>

Truthy(s) == s # None /\ s # << >>

S(atom) == << atom >>

RECURSIVE rstrip(_, _)
rstrip(s, c) ==
    IF s # << >> /\ s[Len(s)] = c THEN rstrip(SubSeq(s, 1, Len(s) - 1), c) ELSE s

RECURSIVE lstrip(_, _)
lstrip(s, c) ==
    IF s # << >> /\ s[1] = c THEN lstrip(SubSeq(s, 2, Len(s)), c) ELSE s

\* str.split(sep): the list of the pieces between the separators
RECURSIVE split(_, _)
split(s, sep) ==
    IF \E i \in 1..Len(s) : s[i] = sep
    THEN LET i == CHOOSE k \in 1..Len(s) : s[k] = sep /\ \A j \in 1..(k - 1) : s[j] # sep
         IN  << SubSeq(s, 1, i - 1) >> \o split(SubSeq(s, i + 1, Len(s)), sep)
    ELSE << s >>

\* sep.join(parts)
RECURSIVE join(_, _)
join(parts, sep) ==
    IF parts = << >> THEN << >>
    ELSE IF Len(parts) = 1 THEN parts[1]
    ELSE parts[1] \o << sep >> \o join(Tail(parts), sep)

Contains(s, c) == \E i \in 1..Len(s) : s[i] = c

HasDoubleSlash(s) == \E i \in 1..(Len(s) - 1) : s[i] = "/" /\ s[i + 1] = "/"

\* str(n) for the small positive integers that occur as nesting levels
Digits == << "1", "2", "3", "4", "5", "6", "7", "8", "9" >>
str(n) == << Digits[n] >>

(***************************************************************************)
(* Insertion-ordered dictionaries: sequences of <<key, value>>             *)
(***************************************************************************)
Has(d, k) == \E i \in 1..Len(d) : d[i][1] = k

Get(d, k) == d[CHOOSE i \in 1..Len(d) : d[i][1] = k][2]

Put(d, k, v) ==
    IF Has(d, k)
    THEN LET i == CHOOSE j \in 1..Len(d) : d[j][1] = k
         IN  SubSeq(d, 1, i - 1) \o << << k, v >> >> \o SubSeq(d, i + 1, Len(d))
    ELSE Append(d, << k, v >>)

Keys(d) == { d[i][1] : i \in 1..Len(d) }

(***************************************************************************)
(* Path joins of the traversal (_resolve_router)                           *)
(***************************************************************************)
\* the concatenation without the strip of the right operand
CurrentPrefixNoStrip(prefix, rprefix) ==
    rstrip(rstrip(prefix, "/") \o << "/" >> \o rprefix, "/")

\* line 97
CurrentPrefix(prefix, rprefix) ==
    rstrip(rstrip(prefix, "/") \o << "/" >> \o lstrip(rprefix, "/"), "/")

\* the concatenation without the `or "/"` of line 101
RouteFullPathRaw(current_prefix, path) ==
    rstrip(rstrip(current_prefix, "/") \o << "/" >> \o lstrip(path, "/"), "/")

\* the concatenation of line 100 without its closing rstrip('/')
RouteFullPathUnstripped(current_prefix, path) ==
    LET full == rstrip(current_prefix, "/") \o << "/" >> \o lstrip(path, "/")
    IN  IF full = << >> THEN << "/" >> ELSE full

\* lines 100-101
RouteFullPath(current_prefix, path) ==
    LET full == rstrip(rstrip(current_prefix, "/") \o << "/" >> \o lstrip(path, "/"), "/")
    IN  IF full = << >> THEN << "/" >> ELSE full

\* line 108
IncludePrefix(current_prefix, incprefix) ==
    rstrip(rstrip(current_prefix, "/") \o << "/" >> \o lstrip(incprefix, "/"), "/")

\* the placeholder without the nesting level
ChildPrefixFlat(level) == << "/", "{p", "1", "_pk}" >>

\* line 116
ChildPrefix(level) == << "/", "{p" >> \o str(level + 1) \o << "_pk}" >>

\* line 117
MagicPrefix(current_prefix, level) ==
    rstrip(rstrip(current_prefix, "/") \o ChildPrefix(level), "/")

(***************************************************************************)
(* core/models.py                                                          *)
(***************************************************************************)
SchemaField(name, type_name, required) ==
    [name |-> name, type_name |-> type_name, required |-> required]

NoDeps == [services |-> << >>, database |-> << >>, external |-> << >>,
           utilities |-> << >>, tables |-> << >>, apiCalls |-> << >>,
           grouped |-> None]

RouteDef(path, method, router_var, lineno, file_path) ==
    [path |-> path, method |-> method, router_var |-> router_var,
     lineno |-> lineno, file_path |-> file_path, full_path |-> << >>,
     dependencies |-> NoDeps,
     request_schema |-> << >>, response_schema |-> << >>,
     request_model_name |-> None, response_model_name |-> None]

IncludeDef(router_var, prefix) == [router_var |-> router_var, prefix |-> prefix]

RouterDef(var_name, prefix, model_name, parent_var) ==
    [var_name |-> var_name, prefix |-> prefix, model_name |-> model_name,
     parent_var |-> parent_var, includes_children |-> FALSE,
     includes |-> << >>, routes |-> << >>,
     list_schema |-> None, retrieve_schema |-> None, create_schema |-> None,
     update_schema |-> None, delete_schema |-> None]

FileData(file_path) ==
    [file_path |-> file_path, imports |-> << >>, routers |-> << >>,
     app_var |-> None, models |-> << >>]

\* RouteDef.to_dict
to_dict(route) ==
    [path |-> route.path, method |-> route.method, router_var |-> route.router_var,
     lineno |-> route.lineno, file_path |-> route.file_path,
     full_path |-> IF route.full_path # << >> THEN route.full_path ELSE route.path,
     dependencies |-> route.dependencies,
     request_schema |-> route.request_schema,
     response_schema |-> route.response_schema]

(***************************************************************************)
(* Source files as the visitor sees them: a list of statements             *)
(***************************************************************************)
\* expressions: a name, or an attribute of a name (a.b); NoArg when absent
Name(id) == [t |-> "Name", id |-> id, attr |-> << >>]
Attribute(id, attr) == [t |-> "Attribute", id |-> id, attr |-> attr]
NoArg == [t |-> "None", id |-> << >>, attr |-> << >>]

\* import <name> [as <asname>]
Import(name, asname) == [kind |-> "import", name |-> name, asname |-> asname]
\* from <module> import <name> [as <asname>]
ImportFrom(module, name, asname) ==
    [kind |-> "from", module |-> module, name |-> name, asname |-> asname]
\* <target> = <func>(prefix=<prefix>, parent_router=<parent>)
Assign(target, func, prefix, parent) ==
    [kind |-> "assign", target |-> target, func |-> func, prefix |-> prefix,
     parent |-> parent]
\* @<func>(<path>, response_model=<resp>) def f(arg: <req>), at line <lineno>
Route(func, path, lineno, req, resp, deps) ==
    [kind |-> "route", func |-> func, path |-> path,
     lineno |-> lineno, req |-> req, resp |-> resp, deps |-> deps]
\* <func>(<arg>, prefix=<prefix>)
Call(func, arg, prefix) == [kind |-> "call", func |-> func, arg |-> arg, prefix |-> prefix]
\* class <name>(<bases>): <fields>
ClassDef(name, bases, fields) ==
    [kind |-> "class", name |-> name, bases |-> bases, fields |-> fields]

Source(parses, body) == [parses |-> parses, body |-> body]

(***************************************************************************)
(* core/visitor.py, adapters                                               *)
(***************************************************************************)
\* ASTVisitor._get_func_name on a Name or a one-level Attribute of a Name
get_func_name(node) ==
    IF node.t = "Name" THEN node.id
    ELSE IF node.t = "Attribute" THEN node.id \o << "." >> \o node.attr
    ELSE << >>

\* str.endswith for identifiers: decided by the last token of the name
EndsWith(fname, suffix) ==
    /\ fname # << >>
    /\ LET last == fname[Len(fname)]
       IN  \/ last = suffix
           \/ last = "CrudAPIRouter" /\ suffix = "APIRouter"

\* the marker test answering yes for every base class
HasMarkerAny(base) == TRUE

\* any(x in base for x in ["BaseModel", "SQLModel", "Schema", "Model"]):
\* the class names of the model that contain one of the markers as a substring
HasMarker(base) ==
    \E i \in 1..Len(base) :
        base[i] \in { "BaseModel", "SQLModel", "Schema", "Model",
                      "ParentModel", "ChildModel", "MixinModel", "UserSchema" }

\* CustomAdapter.parse_router_init, then FastAPIAdapter.parse_router_init
parse_router_init(st) ==
    IF EndsWith(st.func, "CrudAPIRouter")
    THEN [ok |-> TRUE, prefix |-> st.prefix,
          parent |-> IF st.parent = None THEN None ELSE st.parent]
    ELSE IF EndsWith(st.func, "APIRouter")
    THEN [ok |-> TRUE, prefix |-> st.prefix, parent |-> None]
    ELSE [ok |-> FALSE, prefix |-> << >>, parent |-> None]

\* FastAPIAdapter.parse_decorator: the HTTP verbs and their upper-case form
Upper(meth) ==
    CASE meth = "get" -> "GET" [] meth = "post" -> "POST" [] meth = "put" -> "PUT"
      [] meth = "delete" -> "DELETE" [] meth = "patch" -> "PATCH"
      [] meth = "options" -> "OPTIONS" [] meth = "head" -> "HEAD"
      [] OTHER -> ""

IsVerb(meth) == Upper(meth) # ""

\* ImportVisitor.visit_Import
visit_Import(fd, st) ==
    [fd EXCEPT !.imports =
        Put(@, IF Truthy(st.asname) THEN st.asname ELSE st.name, st.name)]

\* ImportVisitor.visit_ImportFrom (level 0)
visit_ImportFrom(fd, st) ==
    LET source    == st.module
        full_name == IF source # << >> THEN source \o << "." >> \o st.name ELSE st.name
    IN  [fd EXCEPT !.imports =
            Put(@, IF Truthy(st.asname) THEN st.asname ELSE st.name, full_name)]

\* ASTVisitor.visit_Assign, router/app definition
visit_Assign(fd, st) ==
    LET res == parse_router_init(st)
    IN  IF res.ok
        THEN [fd EXCEPT !.routers =
                Put(@, st.target, RouterDef(st.target, res.prefix, None, res.parent))]
        ELSE IF EndsWith(st.func, "FastAPI")
        THEN [fd EXCEPT !.app_var = st.target,
                        !.routers = Put(@, st.target, RouterDef(st.target, << >>, None, None))]
        ELSE fd

\* ASTVisitor.visit_FunctionDef for a decorated function
visit_FunctionDef(fd, st) ==
    LET fname      == st.func
        meth       == fname[Len(fname)]
        router_var == IF Contains(fname, ".") THEN split(fname, ".")[1] ELSE << "app" >>
    IN
    IF ~ IsVerb(meth) THEN fd
    ELSE
    LET route == [RouteDef(st.path, Upper(meth), router_var, st.lineno, fd.file_path)
                    EXCEPT !.request_model_name = st.req,
                           !.response_model_name = st.resp,
                           !.dependencies = st.deps]
        routers1 == IF Has(fd.routers, router_var) THEN fd.routers
                    ELSE Put(fd.routers, router_var, RouterDef(router_var, << >>, None, None))
        rdef == Get(routers1, router_var)
    IN  [fd EXCEPT !.routers =
            Put(routers1, router_var, [rdef EXCEPT !.routes = Append(@, route)])]

\* ASTVisitor.visit_Call on the facts of the file: include_router,
\* include_child_router and the registration of default schemas
call_facts(fd, st) ==
    LET fname  == st.func
        dotted == Contains(fname, ".")
        caller == split(fname, ".")[1]
        last   == fname[Len(fname)]
        fd1 == IF last = "include_router" /\ dotted /\ Has(fd.routers, caller)
                  /\ st.arg # NoArg
               THEN LET rdef == Get(fd.routers, caller)
                        included == get_func_name(st.arg)
                    IN  IF included # << >>
                        THEN [fd EXCEPT !.routers = Put(@, caller,
                                [rdef EXCEPT !.includes = Append(@, IncludeDef(included, st.prefix))])]
                        ELSE fd
               ELSE fd
        isChild == EndsWith(fname, "include_child_router") /\ dotted
        fd2 == IF isChild /\ Has(fd1.routers, caller)
               THEN [fd1 EXCEPT !.routers = Put(@, caller,
                        [Get(fd1.routers, caller) EXCEPT !.includes_children = TRUE])]
               ELSE fd1
        meth == fname[Len(fname)]
        schema_name == get_func_name(st.arg)
    IN  IF dotted /\ Has(fd2.routers, caller) /\ st.arg # NoArg
        THEN LET rdef == Get(fd2.routers, caller)
             IN  [fd2 EXCEPT !.routers = Put(@, caller,
                   CASE meth = "register_list_schema" ->
                          [rdef EXCEPT !.list_schema = schema_name]
                     [] meth = "register_retrieve_schema" ->
                          [rdef EXCEPT !.retrieve_schema = schema_name]
                     [] meth = "register_create_schema" ->
                          [rdef EXCEPT !.create_schema = schema_name]
                     [] meth = "register_update_schema" ->
                          [rdef EXCEPT !.update_schema = schema_name]
                     [] meth = "register_delete_schema" ->
                          [rdef EXCEPT !.delete_schema = schema_name]
                     [] OTHER -> rdef)]
        ELSE fd2

\* ASTVisitor.visit_Call: the facts, and the receivers of include_child_router
visit_Call(data, st) ==
    [data EXCEPT
        !.fd = call_facts(@, st),
        !.include_child_calls =
            IF EndsWith(st.func, "include_child_router") /\ Contains(st.func, ".")
            THEN @ \cup { split(st.func, ".")[1] }
            ELSE @]

\* ASTVisitor.visit_ClassDef
visit_ClassDef(fd, st) ==
    IF \E i \in 1..Len(st.bases) : HasMarker(st.bases[i]) \/ Contains(st.bases[i], "pydantic")
    THEN [fd EXCEPT !.models = Put(@, st.name, [fields |-> st.fields, bases |-> st.bases])]
    ELSE fd

visit_stmt(data, st) ==
    CASE st.kind = "import" -> [data EXCEPT !.fd = visit_Import(@, st)]
      [] st.kind = "from"   -> [data EXCEPT !.fd = visit_ImportFrom(@, st)]
      [] st.kind = "assign" -> [data EXCEPT !.fd = visit_Assign(@, st)]
      [] st.kind = "route"  -> [data EXCEPT !.fd = visit_FunctionDef(@, st)]
      [] st.kind = "call"   -> visit_Call(data, st)
      [] st.kind = "class"  -> [data EXCEPT !.fd = visit_ClassDef(@, st)]

\* ast.NodeVisitor.visit over the module body, statement by statement: the
\* visitor's data after the first statements is computed, then the rest of
\* the body is visited with it
RECURSIVE visit(_, _)
visit(data, body) ==
    IF body = << >> THEN data
    ELSE IF Len(body) = 1 THEN visit_stmt(data, body[1])
    ELSE LET h == Len(body) \div 2
         IN  CHOOSE out \in { visit(mid, SubSeq(body, h + 1, Len(body))) :
                                mid \in { visit(data, SubSeq(body, 1, h)) } } : TRUE

ASTVisitor(file_path) == [fd |-> FileData(file_path), include_child_calls |-> { }]

(***************************************************************************)
(* core/resolver.py                                                        *)
(***************************************************************************)
Absent == [file |-> None, member |-> None]

\* the loop with the package form tried before the single-file form
RECURSIVE resolve_prefix_init_first(_, _, _)
resolve_prefix_init_first(parts, i, known) ==
    IF i = 0 THEN Absent
    ELSE LET path_parts   == SubSeq(parts, 1, i)
             member_parts == SubSeq(parts, i + 1, Len(parts))
             rel_path     == join(path_parts, "/") \o << ".py" >>
             init_path    == join(path_parts, "/") \o << "/", "__init__", ".py" >>
             member       == IF member_parts # << >> THEN member_parts[1] ELSE None
         IN  IF init_path \in known THEN [file |-> init_path, member |-> member]
             ELSE IF rel_path \in known THEN [file |-> rel_path, member |-> member]
             ELSE resolve_prefix_init_first(parts, i - 1, known)

\* the loop of ImportResolver.resolve_module from prefix length i downwards
RECURSIVE resolve_prefix(_, _, _)
resolve_prefix(parts, i, known) ==
    IF i = 0 THEN Absent
    ELSE LET path_parts   == SubSeq(parts, 1, i)
             member_parts == SubSeq(parts, i + 1, Len(parts))
             rel_path     == join(path_parts, "/") \o << ".py" >>
             init_path    == join(path_parts, "/") \o << "/", "__init__", ".py" >>
             member       == IF member_parts # << >> THEN member_parts[1] ELSE None
         IN  IF rel_path \in known THEN [file |-> rel_path, member |-> member]
             ELSE IF init_path \in known THEN [file |-> init_path, member |-> member]
             ELSE resolve_prefix(parts, i - 1, known)

\* ImportResolver.resolve_module; known is the key set of the file map
resolve_module(module_str, known) ==
    IF module_str = << >> THEN Absent
    ELSE LET parts == split(module_str, ".")
         IN  resolve_prefix(parts, Len(parts), known)

\* fields = {f.name: f for f in model_def['fields']}
RECURSIVE field_dict(_, _)
field_dict(d, fields) ==
    IF fields = << >> THEN d
    ELSE field_dict(Put(d, Head(fields).name, Head(fields)), Tail(fields))

\* the merge with the base's field replacing an own field of the same name
RECURSIVE add_overwriting(_, _)
add_overwriting(d, base_fields) ==
    IF base_fields = << >> THEN d
    ELSE add_overwriting(Put(d, Head(base_fields).name, Head(base_fields)),
                         Tail(base_fields))

\* the merge that adds every field of the base, present or not
add_every(d, base_fields) ==
    d \o [i \in 1..Len(base_fields) |-> << base_fields[i].name, base_fields[i] >>]

\* for bf in base_fields: if bf.name not in fields: fields[bf.name] = bf
RECURSIVE add_missing(_, _)
add_missing(d, base_fields) ==
    IF base_fields = << >> THEN d
    ELSE add_missing(IF Has(d, Head(base_fields).name) THEN d
                     ELSE Put(d, Head(base_fields).name, Head(base_fields)),
                     Tail(base_fields))

Values(d) == [i \in 1..Len(d) |-> d[i][2]]

\* the guard that never finds the model in the visited set
SeenModelNever(model_id, vis) == FALSE

\* if model_id in visited: return []
SeenModel(model_id, vis) == model_id \in vis

\* the target looked up under the local alias, whatever the import names
target_symbol_alias(target_member, model_name) == model_name

\* target_name = target_member or model_name
target_symbol(target_member, model_name) ==
    IF Truthy(target_member) THEN target_member ELSE model_name

RECURSIVE find_model_fields(_, _, _, _)
RECURSIVE merge_bases(_, _, _, _, _)

\* TypeResolver.find_model_fields(file_data, model_name, visited)
find_model_fields(fs, file_path, model_name, vis) ==
    LET file_data == Get(fs, file_path)
        model_id  == << file_path, model_name >>
        vis1      == vis \cup { model_id }
    IN  IF model_id \in vis THEN << >>
        ELSE IF Has(file_data.models, model_name)
        THEN LET model_def == Get(file_data.models, model_name)
             IN  Values(merge_bases(fs, file_path, field_dict(<< >>, model_def.fields),
                                    model_def.bases, vis1))
        ELSE IF Has(file_data.imports, model_name)
        THEN LET imp_str == Get(file_data.imports, model_name)
                 res     == resolve_module(imp_str, Keys(fs))
             IN  IF Truthy(res.file) /\ Has(fs, res.file)
                 THEN find_model_fields(fs, res.file,
                        IF Truthy(res.member) THEN res.member ELSE model_name, vis1)
                 ELSE << >>
        ELSE << >>

\* the loop over model_def['bases'] (lines 55-60)
merge_bases(fs, file_path, fields, bases, vis) ==
    IF bases = << >> THEN fields
    ELSE LET base == Head(bases)
         IN  merge_bases(fs, file_path,
                IF HasMarker(base)
                THEN add_missing(fields, find_model_fields(fs, file_path, base, vis))
                ELSE fields,
                Tail(bases), vis)

(***************************************************************************)
(* deps.py                                                                 *)
(***************************************************************************)
\* len(nodes) > 30
AggregateThreshold == 30

Last(seq) == seq[Len(seq)]

\* str(resolver.root / rel_path)
abs_path(root, rel_path) == rstrip(root, "/") \o << "/" >> \o rel_path

\* the positions of a sequence that hold a value for the first time, in order
FirstSeen(seq) ==
    LET firsts == { i \in 1..Len(seq) : \A j \in 1..(i - 1) : seq[j] # seq[i] }
    IN  [k \in 1..Cardinality(firsts) |->
            CHOOSE i \in firsts : Cardinality({ j \in firsts : j < i }) = k - 1]

\* the node add_node appends for a path that is not in added_nodes
new_node(path_str, is_external) ==
    [id |-> path_str,
     label |-> IF Contains(path_str, "/") THEN Last(split(path_str, "/")) ELSE path_str,
     type |-> IF is_external THEN "external" ELSE "file",
     isExternal |-> is_external]

\* nodes after add_node(path, is_external=False) for each path in turn: a
\* path already in added_nodes adds nothing
add_node(paths) ==
    LET firsts == FirstSeen(paths)
    IN  [k \in 1..Len(firsts) |-> new_node(paths[firsts[k]], FALSE)]

\* the iterations of the loop nest of lines 47-51 over files lo..hi, in order:
\* <<rel_path, imp_str>>
RECURSIVE import_items(_, _, _)
import_items(file_map, lo, hi) ==
    IF lo > hi THEN << >>
    ELSE IF lo = hi
    THEN [j \in 1..Len(file_map[lo][2].imports) |->
             << file_map[lo][1], file_map[lo][2].imports[j][2] >>]
    ELSE LET mid == (lo + hi) \div 2
         IN  import_items(file_map, lo, mid) \o import_items(file_map, mid + 1, hi)

\* lines 68-78: the edges, one per import that resolves to a file
build_edges(file_map, root) ==
    LET target_file(item) == resolve_module(item[2], Keys(file_map)).file
        resolved == SelectSeq(import_items(file_map, 1, Len(file_map)),
                              LAMBDA item : Truthy(target_file(item)))
    IN  [k \in 1..Len(resolved) |->
            [source |-> abs_path(root, resolved[k][1]),
             target |-> abs_path(root, target_file(resolved[k]))]]

\* line 87 with >= for >
needs_aggregation_from(nodes) == Len(nodes) >= AggregateThreshold

\* line 87
needs_aggregation(nodes) == Len(nodes) > AggregateThreshold

\* file_to_folder[n["id"]], lines 103-114
folder_of(n) ==
    IF n.type = "external" THEN n.id
    ELSE LET parts == split(n.id, "/")
         IN  join(SubSeq(parts, 1, Len(parts) - 1), "/")

\* lines 102-122: one node per folder (or external node), in the order in
\* which the nodes first name it
folder_nodes(nodes) ==
    LET dirs   == [i \in 1..Len(nodes) |-> folder_of(nodes[i])]
        firsts == FirstSeen(dirs)
    IN  [k \in 1..Len(firsts) |->
            LET n == nodes[firsts[k]]
            IN  IF n.type = "external" THEN n
                ELSE [id |-> dirs[firsts[k]], label |-> Last(split(dirs[firsts[k]], "/")),
                      type |-> "folder", isExternal |-> FALSE]]

\* file_to_folder.get(id)
file_to_folder(nodes, id) ==
    IF \E i \in 1..Len(nodes) : nodes[i].id = id
    THEN folder_of(nodes[CHOOSE i \in 1..Len(nodes) : nodes[i].id = id])
    ELSE None

\* lines 124-132: the set of "src->dst" strings
folder_edges(nodes, edges) ==
    { file_to_folder(nodes, edges[i].source) \o << "->" >> \o file_to_folder(nodes, edges[i].target) :
        i \in { k \in 1..Len(edges) :
                  LET source_folder == file_to_folder(nodes, edges[k].source)
                      target_folder == file_to_folder(nodes, edges[k].target)
                  IN  Truthy(source_folder) /\ Truthy(target_folder)
                        /\ source_folder # target_folder } }

\* aggregate_by_folder; order is the order in which the set is iterated
aggregate_by_folder(nodes, edges, order) ==
    [nodes |-> folder_nodes(nodes),
     edges |-> [i \in 1..Len(order) |->
                  LET sd == split(order[i], "->")
                  IN  [source |-> sd[1], target |-> sd[2]]]]

\* the orders in which Python may iterate a set of strings
Orders(set) ==
    { f \in [1..Cardinality(set) -> set] :
        \A i, j \in 1..Cardinality(set) : i # j => f[i] # f[j] }

\* lines 7-84: the file-level graph; the first loop adds the scanned files,
\* the second the targets of the edges
file_graph(file_map, root) ==
    LET edges == build_edges(file_map, root)
    IN  [nodes |-> add_node([i \in 1..Len(file_map) |-> abs_path(root, file_map[i][1])]
                            \o [k \in 1..Len(edges) |-> edges[k].target]),
         edges |-> edges]

generate_dependency_graph(file_map, root, order) ==
    LET g == file_graph(file_map, root)
    IN  IF needs_aggregation(g.nodes) THEN aggregate_by_folder(g.nodes, g.edges, order)
        ELSE g

(***************************************************************************)
(* __main__.py: ProjectScanner                                             *)
(***************************************************************************)
FQID(file_path, var_name) == file_path \o << ":" >> \o var_name

NoRouter == [file |-> None, var |-> None]

\* ProjectScanner._resolve_router_ref
resolve_router_ref(fs, fd, router_var) ==
    IF Has(fd.routers, router_var) THEN [file |-> fd.file_path, var |-> router_var]
    ELSE IF Has(fd.imports, router_var)
    THEN LET imp == Get(fd.imports, router_var)
             res == resolve_module(imp, Keys(fs))
             imp_parts == split(imp, ".")
             target_name == IF Truthy(res.member) THEN res.member
                            ELSE imp_parts[Len(imp_parts)]
         IN  IF Truthy(res.file) /\ Has(fs, res.file)
                /\ Has(Get(fs, res.file).routers, target_name)
             THEN [file |-> res.file, var |-> target_name]
             ELSE NoRouter
    ELSE NoRouter

\* ProjectScanner._resolve_local_var
resolve_local_var(fs, fd, var_name) ==
    IF Has(fd.routers, var_name) THEN FQID(fd.file_path, var_name)
    ELSE IF Has(fd.imports, var_name)
    THEN LET imp == Get(fd.imports, var_name)
             res == resolve_module(imp, Keys(fs))
             imp_parts == split(imp, ".")
             target_name == IF Truthy(res.member) THEN res.member
                            ELSE imp_parts[Len(imp_parts)]
         IN  IF Truthy(res.file) THEN FQID(res.file, target_name)
             ELSE FQID(fd.file_path, var_name)
    ELSE FQID(fd.file_path, var_name)

\* the path the defaults are matched against taken from the resolved route
local_path_full(route) == route.full_path

\* route.path in the tests of lines 160-165
local_path(route) == route.path

\* a combined list that is extended at every finalization
grouped_list_extended(deps) ==
    (IF deps.grouped = None THEN << >> ELSE deps.grouped)
        \o deps.services \o deps.database \o deps.external \o deps.utilities

\* _finalize_route, lines 147-152: the value assigned to dependencies["grouped"]
grouped_list(deps) ==
    deps.services \o deps.database \o deps.external \o deps.utilities

\* ProjectScanner._finalize_route: the value of the route object afterwards
finalize_route(fs, route) ==
    LET fd   == Get(fs, route.file_path)
        has  == Has(fd.routers, route.router_var)
        rdef == IF has THEN Get(fd.routers, route.router_var)
                ELSE RouterDef(route.router_var, << >>, None, None)
        deps == route.dependencies
        grouped == grouped_list(deps)
        req  == IF ~ Truthy(route.request_model_name) /\ has
                THEN IF route.method = "POST" /\ local_path(route) = << "/" >>
                     THEN rdef.create_schema
                     ELSE IF route.method = "PUT" /\ local_path(route) = << "/", "{id}" >>
                     THEN rdef.update_schema
                     ELSE route.request_model_name
                ELSE route.request_model_name
        resp == IF ~ Truthy(route.response_model_name) /\ has
                THEN IF route.method = "GET" /\ local_path(route) = << "/" >>
                     THEN rdef.list_schema
                     ELSE IF route.method = "GET" /\ local_path(route) = << "/", "{id}" >>
                     THEN rdef.retrieve_schema
                     ELSE route.response_model_name
                ELSE route.response_model_name
    IN  [route EXCEPT
            !.dependencies = [deps EXCEPT !.grouped = grouped],
            !.request_model_name = req,
            !.response_model_name = resp,
            !.request_schema = IF Truthy(req) THEN find_model_fields(fs, route.file_path, req, { })
                               ELSE @,
            !.response_schema = IF Truthy(resp) THEN find_model_fields(fs, route.file_path, resp, { })
                                ELSE @]

\* the object  files[file_path].routers[var].routes[k]
RouteAt(fs, ref) == Get(Get(fs, ref.file).routers, ref.var).routes[ref.k]

\* a route object that keeps the fields of its first resolution
SetRouteOnce(fs, ref, route) ==
    LET fd   == Get(fs, ref.file)
        rdef == Get(fd.routers, ref.var)
    IN  IF rdef.routes[ref.k].full_path # << >> THEN fs
        ELSE Put(fs, ref.file,
                 [fd EXCEPT !.routers =
                     Put(@, ref.var, [rdef EXCEPT !.routes = [@ EXCEPT ![ref.k] = route]])])

SetRoute(fs, ref, route) ==
    LET fd   == Get(fs, ref.file)
        rdef == Get(fd.routers, ref.var)
    IN  Put(fs, ref.file,
            [fd EXCEPT !.routers =
                Put(@, ref.var, [rdef EXCEPT !.routes = [@ EXCEPT ![ref.k] = route]])])

RouteRef(file, var, k) == [file |-> file, var |-> var, k |-> k]

\* the loop of lines 99-103 from route k on: st = [files, endpoints]
RECURSIVE emit_routes(_, _, _, _, _)
emit_routes(st, file, var, k, current_prefix) ==
    IF k > Len(Get(Get(st.files, file).routers, var).routes) THEN st
    ELSE LET ref    == RouteRef(file, var, k)
             route  == RouteAt(st.files, ref)
             route1 == [route EXCEPT !.full_path = RouteFullPath(current_prefix, route.path)]
             route2 == finalize_route(st.files, route1)
         IN  CHOOSE out \in { emit_routes(st1, file, var, k + 1, current_prefix) :
                    st1 \in { [files |-> SetRoute(st.files, ref, route2),
                               endpoints |-> Append(st.endpoints, ref)] } } : TRUE

\* fallback mode with the router's prefix composed into full_path
RECURSIVE emit_unresolved_prefixed(_, _, _, _)
emit_unresolved_prefixed(st, file, var, k) ==
    IF k > Len(Get(Get(st.files, file).routers, var).routes) THEN st
    ELSE LET ref    == RouteRef(file, var, k)
             route  == RouteAt(st.files, ref)
             prefix == Get(Get(st.files, file).routers, var).prefix
             route1 == [route EXCEPT !.full_path = RouteFullPath(prefix, route.path)]
             route2 == finalize_route(st.files, route1)
         IN  CHOOSE out \in { emit_unresolved_prefixed(st1, file, var, k + 1) :
                    st1 \in { [files |-> SetRoute(st.files, ref, route2),
                               endpoints |-> Append(st.endpoints, ref)] } } : TRUE

\* the loop of lines 84-87 (fallback mode) for one router
RECURSIVE emit_unresolved(_, _, _, _)
emit_unresolved(st, file, var, k) ==
    IF k > Len(Get(Get(st.files, file).routers, var).routes) THEN st
    ELSE LET ref    == RouteRef(file, var, k)
             route  == RouteAt(st.files, ref)
             route1 == [route EXCEPT !.full_path = route.path]
             route2 == finalize_route(st.files, route1)
         IN  CHOOSE out \in { emit_unresolved(st1, file, var, k + 1) :
                    st1 \in { [files |-> SetRoute(st.files, ref, route2),
                               endpoints |-> Append(st.endpoints, ref)] } } : TRUE

\* all (file, router variable) pairs in Fact Store order
RECURSIVE router_list(_, _, _)
router_list(fs, i, j) ==
    IF i > Len(fs) THEN << >>
    ELSE IF j > Len(fs[i][2].routers) THEN router_list(fs, i + 1, 1)
    ELSE << [file |-> fs[i][1], var |-> fs[i][2].routers[j][1]] >>
         \o router_list(fs, i, j + 1)

\* lines 82-87
RECURSIVE fallback(_, _)
fallback(st, rs) ==
    IF rs = << >> THEN st
    ELSE CHOOSE out \in { fallback(st1, Tail(rs)) :
            st1 \in { emit_unresolved(st, Head(rs).file, Head(rs).var, 1) } } : TRUE

\* line 79
RECURSIVE app_list(_, _)
app_list(fs, i) ==
    IF i > Len(fs) THEN << >>
    ELSE LET fd == fs[i][2]
         IN  (IF Truthy(fd.app_var) /\ Has(fd.routers, fd.app_var)
              THEN << [file |-> fs[i][1], var |-> fd.app_var] >> ELSE << >>)
             \o app_list(fs, i + 1)

\* lines 68-76
RECURSIVE build_hierarchy(_, _, _)
build_hierarchy(fs, pcmap, rs) ==
    IF rs = << >> THEN pcmap
    ELSE LET fd == Get(fs, Head(rs).file)
             r  == Get(fd.routers, Head(rs).var)
             parent_id == resolve_local_var(fs, fd, r.parent_var)
             child_id  == FQID(fd.file_path, r.var_name)
             kids == IF Has(pcmap, parent_id) THEN Get(pcmap, parent_id) ELSE << >>
         IN  build_hierarchy(fs,
                IF Truthy(r.parent_var) THEN Put(pcmap, parent_id, Append(kids, child_id))
                ELSE pcmap,
                Tail(rs))

\* lines 58-60: the include_child_router receivers of one file, resolved
resolve_child_calls(fs, fd, calls) == { resolve_local_var(fs, fd, c) : c \in calls }

(***************************************************************************)
(* The run of main(): scan(), resolve(), print                             *)
(***************************************************************************)
Frame(file, var, prefix, level) ==
    [file |-> file, var |-> var, prefix |-> prefix, level |-> level,
     lp |-> "enter", i |-> 1, current_prefix |-> << >>, kids |-> << >>]

\* a traversal without the cycle guard
SeenNever(router_id, vis) == FALSE

\* line 94: the cycle guard
Seen(router_id, vis) == router_id \in vis

\* a traversal that forgets the routers it has entered
MarkNothing(router_id, vis) == vis

\* line 95
Mark(router_id, vis) == vis \cup { router_id }

\* scan(), lines 40-63, for one file: st = [files, global_includes_children];
\* a file that makes the try block fail registers an empty FileData
scan_file_keeping(st, rel_path, src) ==
    LET visitor == visit(ASTVisitor(rel_path), src.body)
        files1  == Put(st.files, rel_path, visitor.fd)
    IN  IF src.parses
        THEN [files |-> files1,
              global_includes_children |-> st.global_includes_children \cup
                  resolve_child_calls(files1, visitor.fd, visitor.include_child_calls)]
        ELSE [st EXCEPT !.files = Put(@, rel_path, FileData(rel_path))]

\* scan(), lines 40-63, for one file: st = [files, global_includes_children]
scan_file(st, rel_path, src) ==
    LET visitor == visit(ASTVisitor(rel_path), src.body)
        files1  == Put(st.files, rel_path, visitor.fd)
    IN  IF src.parses
        THEN [files |-> files1,
              global_includes_children |-> st.global_includes_children \cup
                  resolve_child_calls(files1, visitor.fd, visitor.include_child_calls)]
        ELSE st

\* scan(), lines 36-63: the files of the tree tr in the order of the listing
RECURSIVE scan_files(_, _, _)
scan_files(st, tr, order) ==
    IF order = << >> THEN st
    ELSE CHOOSE out \in { scan_files(st1, tr, Tail(order)) :
            st1 \in { scan_file(st, Head(order), Get(tr, Head(order))) } } : TRUE

\* nesting switched on for every router
is_magic_always(r, router_id, calls) == TRUE

\* _resolve_router, line 111
is_magic(r, router_id, calls) == r.includes_children \/ router_id \in calls

\* one visited set handed from each entry point's traversal to the next
traversal_visited_shared(previous) == previous

\* resolve(), line 90: the set() passed to the traversal of an entry point,
\* whatever set the previous traversal left
traversal_visited(previous) == { }

RECURSIVE resolve_router(_, _, _, _, _, _)
RECURSIVE resolve_includes(_, _, _, _, _, _, _)
RECURSIVE resolve_children(_, _, _, _, _, _)

\* _resolve_router(fd, r, prefix, visited, level) as one call:
\* env = [global_includes_children, parent_child], st = [files, endpoints, visited]
resolve_router(env, st, file, var, prefix, level) ==
    LET router_id == FQID(file, var)
        r == Get(Get(st.files, file).routers, var)
        current_prefix == CurrentPrefix(prefix, r.prefix)
        em  == emit_routes([files |-> st.files, endpoints |-> st.endpoints],
                           file, var, 1, current_prefix)
        st1 == [files |-> em.files, endpoints |-> em.endpoints,
                visited |-> Mark(router_id, st.visited)]
        kids == IF is_magic(r, router_id, env.global_includes_children)
                   /\ Has(env.parent_child, router_id)
                THEN Get(env.parent_child, router_id) ELSE << >>
    IN  IF Seen(router_id, st.visited) THEN st
        ELSE CHOOSE out \in { resolve_children(env, after, kids, 1, current_prefix, level) :
                after \in { resolve_includes(env, emitted, file, var, 1,
                                             current_prefix, level) :
                            emitted \in { st1 } } } : TRUE

\* lines 105-109 from inclusion i on
resolve_includes(env, st, file, var, i, current_prefix, level) ==
    LET fd == Get(st.files, file)
        r  == Get(fd.routers, var)
    IN  IF i > Len(r.includes) THEN st
        ELSE LET inc    == r.includes[i]
                 target == resolve_router_ref(st.files, fd, inc.router_var)
                 new_prefix == IncludePrefix(current_prefix, inc.prefix)
             IN  CHOOSE out \in
                    { resolve_includes(env, st1, file, var, i + 1, current_prefix, level) :
                      st1 \in { IF target # NoRouter
                                THEN resolve_router(env, st, target.file, target.var,
                                                    new_prefix, level)
                                ELSE st } } : TRUE

\* lines 113-118 from child i on
resolve_children(env, st, kids, i, current_prefix, level) ==
    IF i > Len(kids) THEN st
    ELSE LET c_file == split(kids[i], ":")[1]
             c_var  == split(kids[i], ":")[2]
             new_prefix == MagicPrefix(current_prefix, level)
         IN  CHOOSE out \in
                { resolve_children(env, st1, kids, i + 1, current_prefix, level) :
                  st1 \in { IF Has(st.files, c_file)
                               /\ Has(Get(st.files, c_file).routers, c_var)
                            THEN resolve_router(env, st, c_file, c_var, new_prefix,
                                                level + 1)
                            ELSE st } } : TRUE

\* lines 89-90: one traversal per entry point, each with a fresh visited set
RECURSIVE resolve_apps(_, _, _)
resolve_apps(env, st, as) ==
    IF as = << >> THEN st
    ELSE LET res == resolve_router(env, [files |-> st.files, endpoints |-> st.endpoints,
                                         visited |-> traversal_visited({ })],
                                   Head(as).file, Head(as).var, << >>, 0)
         IN  CHOOSE out \in { resolve_apps(env, st1, Tail(as)) :
                    st1 \in { [files |-> res.files, endpoints |-> res.endpoints] } } : TRUE

\* main(): the printed list for the tree tr listed in the given order
run_output(tr, order) ==
    LET sc  == scan_files([files |-> << >>, global_includes_children |-> { }], tr, order)
        env == [global_includes_children |-> sc.global_includes_children,
                parent_child |-> build_hierarchy(sc.files, << >>, router_list(sc.files, 1, 1))]
        st0 == [files |-> sc.files, endpoints |-> << >>]
        st  == IF app_list(sc.files, 1) = << >>
               THEN fallback(st0, router_list(sc.files, 1, 1))
               ELSE resolve_apps(env, st0, app_list(sc.files, 1))
    IN  [k \in 1..Len(st.endpoints) |-> to_dict(RouteAt(st.files, st.endpoints[k]))]

Top == stack[Len(stack)]
Pop == SubSeq(stack, 1, Len(stack) - 1)
SetTop(f) == [stack EXCEPT ![Len(stack)] = f]

\* scan(), lines 38-63: one file of the walk
ScanFile ==
    /\ pc = "scan"
    /\ walk # << >>
    /\ LET st == scan_file([files |-> files,
                            global_includes_children |-> global_includes_children],
                           Head(walk), Get(tree, Head(walk)))
       IN  /\ files' = st.files
           /\ global_includes_children' = st.global_includes_children
    /\ walk' = Tail(walk)
    /\ UNCHANGED << tree, parent_child, endpoints, apps, stack, visited, pc, output,
                    jn, ir, ty, gr, fm, fz >>

\* scan(), lines 65-76
BuildHierarchy ==
    /\ pc = "scan"
    /\ walk = << >>
    /\ parent_child' = build_hierarchy(files, << >>, router_list(files, 1, 1))
    /\ pc' = "resolve"
    /\ UNCHANGED << tree, walk, files, global_includes_children, endpoints, apps,
                    stack, visited, output, jn, ir, ty, gr, fm, fz >>

\* the emission of every declared route whether or not there is an entry point
ResolveFallbackAnyway ==
    /\ pc = "resolve"
    /\ LET st == fallback([files |-> files, endpoints |-> endpoints],
                          router_list(files, 1, 1))
       IN  /\ files' = st.files
           /\ endpoints' = st.endpoints
    /\ pc' = "print"
    /\ UNCHANGED << tree, walk, global_includes_children, parent_child, apps, stack,
                    visited, output, jn, ir, ty, gr, fm, fz >>

\* resolve(), lines 79-87: no entry point
ResolveFallback ==
    /\ pc = "resolve"
    /\ app_list(files, 1) = << >>
    /\ LET st == fallback([files |-> files, endpoints |-> endpoints],
                          router_list(files, 1, 1))
       IN  /\ files' = st.files
           /\ endpoints' = st.endpoints
    /\ pc' = "print"
    /\ UNCHANGED << tree, walk, global_includes_children, parent_child, apps, stack,
                    visited, output, jn, ir, ty, gr, fm, fz >>

\* resolve(), lines 79, 88-89: the list of entry points
ResolveApps ==
    /\ pc = "resolve"
    /\ app_list(files, 1) # << >>
    /\ apps' = app_list(files, 1)
    /\ pc' = "traverse"
    /\ UNCHANGED << tree, walk, files, global_includes_children, parent_child,
                    endpoints, stack, visited, output, jn, ir, ty, gr, fm, fz >>

\* resolve(), line 90: _resolve_router(fd, r, "", set(), level=0)
StartTraversal ==
    /\ pc = "traverse"
    /\ stack = << >>
    /\ apps # << >>
    /\ stack' = << Frame(Head(apps).file, Head(apps).var, << >>, 0) >>
    /\ visited' = traversal_visited(visited)
    /\ apps' = Tail(apps)
    /\ UNCHANGED << tree, walk, files, global_includes_children, parent_child,
                    endpoints, pc, output, jn, ir, ty, gr, fm, fz >>

\* _resolve_router, lines 93-103
EnterRouter ==
    /\ pc = "traverse"
    /\ stack # << >>
    /\ Top.lp = "enter"
    /\ LET router_id == FQID(Top.file, Top.var)
           r == Get(Get(files, Top.file).routers, Top.var)
           current_prefix == CurrentPrefix(Top.prefix, r.prefix)
           st == emit_routes([files |-> files, endpoints |-> endpoints],
                             Top.file, Top.var, 1, current_prefix)
       IN  IF Len(stack) > MaxDepth
           THEN /\ pc' = "RecursionError"
                /\ UNCHANGED << stack, visited, files, endpoints >>
           ELSE IF Seen(router_id, visited)
           THEN /\ stack' = Pop
                /\ UNCHANGED << visited, files, endpoints, pc >>
           ELSE /\ visited' = Mark(router_id, visited)
                /\ files' = st.files
                /\ endpoints' = st.endpoints
                /\ stack' = SetTop([Top EXCEPT !.lp = "includes", !.i = 1,
                                               !.current_prefix = current_prefix])
                /\ pc' = pc
    /\ UNCHANGED << tree, walk, global_includes_children, parent_child, apps,
                    output, jn, ir, ty, gr, fm, fz >>

\* a traversal that gives up the router's inclusions at the first target it
\* cannot resolve
IncludeStepAbort ==
    /\ pc = "traverse"
    /\ stack # << >>
    /\ Top.lp = "includes"
    /\ LET fd  == Get(files, Top.file)
           r   == Get(fd.routers, Top.var)
       IN  /\ Top.i <= Len(r.includes)
           /\ LET inc    == r.includes[Top.i]
                  target == resolve_router_ref(files, fd, inc.router_var)
                  new_prefix == IncludePrefix(Top.current_prefix, inc.prefix)
                  next   == [Top EXCEPT !.i = @ + 1]
              IN  IF target # NoRouter
                  THEN stack' = Append(SetTop(next),
                                  Frame(target.file, target.var, new_prefix, Top.level))
                  ELSE stack' = SetTop([Top EXCEPT !.i = Len(r.includes) + 1])
    /\ UNCHANGED << tree, walk, files, global_includes_children, parent_child,
                    endpoints, apps, visited, pc, output, jn, ir, ty, gr, fm, fz >>

\* a traversal that takes the router's inclusions from the last to the first
IncludeStepReversed ==
    /\ pc = "traverse"
    /\ stack # << >>
    /\ Top.lp = "includes"
    /\ LET fd  == Get(files, Top.file)
           r   == Get(fd.routers, Top.var)
       IN  /\ Top.i <= Len(r.includes)
           /\ LET inc    == r.includes[Len(r.includes) + 1 - Top.i]
                  target == resolve_router_ref(files, fd, inc.router_var)
                  new_prefix == IncludePrefix(Top.current_prefix, inc.prefix)
                  next   == [Top EXCEPT !.i = @ + 1]
              IN  IF target # NoRouter
                  THEN stack' = Append(SetTop(next),
                                  Frame(target.file, target.var, new_prefix, Top.level))
                  ELSE stack' = SetTop(next)
    /\ UNCHANGED << tree, walk, files, global_includes_children, parent_child,
                    endpoints, apps, visited, pc, output, jn, ir, ty, gr, fm, fz >>

\* _resolve_router, lines 105-109: one iteration
IncludeStep ==
    /\ pc = "traverse"
    /\ stack # << >>
    /\ Top.lp = "includes"
    /\ LET fd  == Get(files, Top.file)
           r   == Get(fd.routers, Top.var)
       IN  /\ Top.i <= Len(r.includes)
           /\ LET inc    == r.includes[Top.i]
                  target == resolve_router_ref(files, fd, inc.router_var)
                  new_prefix == IncludePrefix(Top.current_prefix, inc.prefix)
                  next   == [Top EXCEPT !.i = @ + 1]
              IN  IF target # NoRouter
                  THEN stack' = Append(SetTop(next),
                                  Frame(target.file, target.var, new_prefix, Top.level))
                  ELSE stack' = SetTop(next)
    /\ UNCHANGED << tree, walk, files, global_includes_children, parent_child,
                    endpoints, apps, visited, pc, output, jn, ir, ty, gr, fm, fz >>

\* _resolve_router, lines 111-112
MagicGate ==
    /\ pc = "traverse"
    /\ stack # << >>
    /\ Top.lp = "includes"
    /\ LET r == Get(Get(files, Top.file).routers, Top.var)
           router_id == FQID(Top.file, Top.var)
       IN  /\ Top.i > Len(r.includes)
           /\ stack' = SetTop([Top EXCEPT !.lp = "magic", !.i = 1,
                    !.kids = IF is_magic(r, router_id, global_includes_children)
                                /\ Has(parent_child, router_id)
                             THEN Get(parent_child, router_id) ELSE << >>])
    /\ UNCHANGED << tree, walk, files, global_includes_children, parent_child,
                    endpoints, apps, visited, pc, output, jn, ir, ty, gr, fm, fz >>

\* _resolve_router, lines 113-118: one iteration
MagicStep ==
    /\ pc = "traverse"
    /\ stack # << >>
    /\ Top.lp = "magic"
    /\ Top.i <= Len(Top.kids)
    /\ LET child_id == Top.kids[Top.i]
           c_file == split(child_id, ":")[1]
           c_var  == split(child_id, ":")[2]
           new_prefix == MagicPrefix(Top.current_prefix, Top.level)
           next == [Top EXCEPT !.i = @ + 1]
       IN  IF Has(files, c_file) /\ Has(Get(files, c_file).routers, c_var)
           THEN stack' = Append(SetTop(next), Frame(c_file, c_var, new_prefix, Top.level + 1))
           ELSE stack' = SetTop(next)
    /\ UNCHANGED << tree, walk, files, global_includes_children, parent_child,
                    endpoints, apps, visited, pc, output, jn, ir, ty, gr, fm, fz >>

\* a return that takes the router out of the visited set again, as if every
\* branch of the traversal had a visited set of its own
ReturnUnmarking ==
    /\ pc = "traverse"
    /\ stack # << >>
    /\ Top.lp = "magic"
    /\ Top.i > Len(Top.kids)
    /\ stack' = Pop
    /\ visited' = visited \ { FQID(Top.file, Top.var) }
    /\ UNCHANGED << tree, walk, files, global_includes_children, parent_child,
                    endpoints, apps, pc, output, jn, ir, ty, gr, fm, fz >>

\* _resolve_router returns
Return ==
    /\ pc = "traverse"
    /\ stack # << >>
    /\ Top.lp = "magic"
    /\ Top.i > Len(Top.kids)
    /\ stack' = Pop
    /\ UNCHANGED << tree, walk, files, global_includes_children, parent_child,
                    endpoints, apps, visited, pc, output, jn, ir, ty, gr, fm, fz >>

\* main(), line 181
DumpOutput ==
    /\ \/ pc = "print"
       \/ pc = "traverse" /\ stack = << >> /\ apps = << >>
    /\ output' = [k \in 1..Len(endpoints) |-> to_dict(RouteAt(files, endpoints[k]))]
    /\ pc' = "done"
    /\ UNCHANGED << tree, walk, files, global_includes_children, parent_child,
                    endpoints, apps, stack, visited, jn, ir, ty, gr, fm, fz >>

(***************************************************************************)
(* The scanned projects.  A project is described by its files (stems, in   *)
(* directory order), the constructor of each file's router, the manual     *)
(* inclusions, the parent_router links and where include_child_router is   *)
(* called; ProjectTree writes the source of each file from it.             *)
(***************************************************************************)
FileKey(stem) == << stem, ".py" >>

RouterVar(shape, stem) == IF stem \in shape.apps THEN << "app" >> ELSE << "router" >>

AliasOf(stem) ==
    CASE stem = "app"   -> << "app_router" >>
      [] stem = "admin" -> << "admin_router" >>
      [] stem = "users" -> << "users_router" >>
      [] stem = "items" -> << "items_router" >>
      [] stem = "tags"  -> << "tags_router" >>
      [] stem = "ghost" -> << "ghost_router" >>
      [] stem = "models" -> << "models_router" >>
      [] OTHER          -> << "other_router" >>

RECURSIVE Slashes(_)
Slashes(n) == IF n = 0 THEN << >> ELSE << "/" >> \o Slashes(n - 1)

Styles == { "plain", "trail", "bare", "empty", "multi" }

StylePrefix(style, stem) ==
    CASE style = "plain" -> << "/", stem >>
      [] style = "trail" -> << "/", stem, "/" >>
      [] style = "bare"  -> << stem >>
      [] style = "empty" -> << >>
      [] style = "multi" -> Slashes(MaxSlashes) \o << stem >> \o Slashes(MaxSlashes)

StylePath(style) ==
    CASE style = "plain" -> << "/" >>
      [] style = "trail" -> << "/", "list", "/" >>
      [] style = "bare"  -> << "list" >>
      [] style = "empty" -> << >>
      [] style = "multi" -> Slashes(MaxSlashes)

StyleInclude(style) ==
    CASE style = "plain" -> << >>
      [] style = "trail" -> << "/", "api", "/" >>
      [] style = "bare"  -> << "api" >>
      [] style = "empty" -> << "/" >>
      [] style = "multi" -> Slashes(MaxSlashes) \o << "v1" >>

\* how file `from` writes a reference to the router of file `to`
RefExpr(shape, form, from, to) ==
    IF from = to THEN Name(RouterVar(shape, to))
    ELSE IF form = "alias" THEN Name(AliasOf(to))
    ELSE Attribute(<< to >>, RouterVar(shape, to))

RefImport(shape, form, to) ==
    IF form = "alias" THEN ImportFrom(<< to >>, RouterVar(shape, to), AliasOf(to))
    ELSE Import(<< to >>, None)

\* the pairs of seq whose first component is x, in order
RECURSIVE From(_, _)
From(seq, x) ==
    IF seq = << >> THEN << >>
    ELSE (IF Head(seq)[1] = x THEN << Head(seq)[2] >> ELSE << >>) \o From(Tail(seq), x)

RECURSIVE Uniq(_)
Uniq(seq) ==
    IF seq = << >> THEN << >>
    ELSE LET r == Uniq(SubSeq(seq, 1, Len(seq) - 1))
             x == seq[Len(seq)]
         IN  IF \E i \in 1..Len(r) : r[i] = x THEN r ELSE Append(r, x)

Map1(f(_), seq) == [i \in 1..Len(seq) |-> f(seq[i])]

UserFields == << SchemaField(<< "id" >>, << "int" >>, TRUE),
                 SchemaField(<< "name" >>, << "str" >>, TRUE) >>

SomeDeps == [NoDeps EXCEPT !.services = << "user_service", "mail_service" >>,
                           !.database = << "Database" >>,
                           !.external = << "requests" >>,
                           !.utilities = << "slugify" >>,
                           !.tables = << "UserModel" >>,
                           !.apiCalls = << "GET users" >>]

FileSource(shape, form, style, stem) ==
    LET me       == RouterVar(shape, stem)
        incs     == From(shape.inc, stem)
        parents  == From(shape.parent, stem)
        flagged  == From(shape.flags, stem)
        others   == Uniq(SelectSeq(incs \o parents \o flagged, LAMBDA y : y # stem))
        imports  == [i \in 1..Len(others) |-> RefImport(shape, form, others[i])]
        ctor     == IF stem \in shape.apps THEN << "FastAPI" >>
                    ELSE IF stem \in shape.crud THEN << "CrudAPIRouter" >>
                    ELSE << "APIRouter" >>
        parent   == IF parents = << >> THEN None
                    ELSE get_func_name(RefExpr(shape, form, stem, parents[1]))
        init     == IF stem \in shape.bare THEN << >>
                    ELSE << Assign(me, ctor, StylePrefix(style, stem), parent) >>
        classes  == << ClassDef(<< "UserSchema" >>, << << "BaseModel" >> >>, UserFields) >>
        routes   == IF stem \in shape.bare \cup shape.noroutes THEN << >>
                    ELSE IF stem \in shape.oneroute
                    THEN << Route(me \o << ".", "get" >>, StylePath(style), 10,
                                  None, None, NoDeps) >>
                    ELSE << Route(me \o << ".", "get" >>, StylePath(style), 10,
                                  None, << "UserSchema" >>, SomeDeps),
                            Route(me \o << ".", "post" >>, << "/", "{id}" >>, 20,
                                  << "UserSchema" >>, None, NoDeps) >>
        calls    == [i \in 1..Len(incs) |->
                        Call(me \o << ".", "include_router" >>,
                             RefExpr(shape, form, stem, incs[i]), StyleInclude(style))]
        flags    == [i \in 1..Len(flagged) |->
                        Call(get_func_name(RefExpr(shape, form, stem, flagged[i]))
                                \o << ".", "include_child_router" >>,
                             NoArg, << >>)]
    IN  Source(stem \notin shape.broken,
               imports \o init \o classes \o routes \o calls \o flags)

ProjectTree(shape, form, style) ==
    [i \in 1..Len(shape.stems) |->
        << FileKey(shape.stems[i]), FileSource(shape, form, style, shape.stems[i]) >>]

Shape(stems, appStems, crudStems, incs, parents, flagCalls) ==
    [stems |-> stems, apps |-> appStems, crud |-> crudStems, bare |-> { },
     broken |-> { }, noroutes |-> { }, oneroute |-> { },
     inc |-> incs, parent |-> parents, flags |-> flagCalls]

\* app includes users
Single == Shape(<< "app", "users" >>, { "app" }, { }, << << "app", "users" >> >>, << >>, << >>)

\* app.py: app = FastAPI(), includes the router of users.py;
\* users.py: router = APIRouter(prefix=...), one GET route
Scenario == [Single EXCEPT !.noroutes = { "app" }, !.oneroute = { "users" }]

\* app includes users, users includes items, items includes users
Cycle == Shape(<< "app", "items", "users" >>, { "app" }, { },
               << << "app", "users" >>, << "users", "items" >>, << "items", "users" >> >>,
               << >>, << >>)

\* app includes users, users includes itself and then items
SelfInclude == Shape(<< "app", "items", "users" >>, { "app" }, { },
               << << "app", "users" >>, << "users", "users" >>, << "users", "items" >> >>,
               << >>, << >>)

\* app includes users and items, both include tags
Diamond == Shape(<< "app", "items", "tags", "users" >>, { "app" }, { },
               << << "app", "users" >>, << "app", "items" >>,
                  << "users", "tags" >>, << "items", "tags" >> >>,
               << >>, << >>)

\* app includes users; items is a child of users, tags a child of items
MagicChain(flags) == Shape(<< "app", "items", "tags", "users" >>, { "app" },
               { "users", "items", "tags" },
               << << "app", "users" >> >>,
               << << "items", "users" >>, << "tags", "items" >> >>, flags)

\* users is a child of app; users includes items; tags is a child of items
MagicThroughInclude(flags) == Shape(<< "app", "items", "tags", "users" >>, { "app" },
               { "users", "items", "tags" },
               << << "users", "items" >> >>,
               << << "users", "app" >>, << "tags", "items" >> >>, flags)

\* app includes users; users names itself as parent; items and users are
\* each other's parent
MagicCycle(flags) == Shape(<< "app", "items", "tags", "users" >>, { "app" },
               { "users", "items", "tags" },
               << << "app", "users" >>, << "app", "tags" >> >>,
               << << "tags", "tags" >>, << "items", "users" >>, << "users", "items" >> >>,
               flags)

\* no FastAPI() object anywhere
NoApp == Shape(<< "items", "users" >>, { }, { "items" },
               << << "users", "items" >> >>, << << "items", "users" >> >>,
               << << "users", "users" >> >>)

\* two applications, both include users, users includes items
TwoApps == Shape(<< "admin", "app", "items", "users" >>, { "app", "admin" }, { },
               << << "app", "users" >>, << "admin", "items" >>, << "admin", "users" >>,
                  << "users", "items" >> >>,
               << >>, << >>)

\* app includes a name from a file that does not exist, a name from a file
\* without routers, and then users; items is a child of app
Unresolved(flags) ==
    [Shape(<< "app", "items", "models", "users" >>, { "app" }, { "items" },
           << << "app", "ghost" >>, << "app", "models" >>, << "app", "users" >> >>,
           << << "items", "app" >> >>, flags)
     EXCEPT !.bare = { "models" }]

OwnFlags     == << << "users", "users" >>, << "items", "items" >>, << "app", "app" >>,
                   << "tags", "tags" >> >>
DistantFlags == << << "app", "users" >>, << "app", "items" >>, << "app", "app" >>,
                   << "app", "tags" >> >>
FlagModes    == { OwnFlags, DistantFlags, << >> }

Broken(shape, stem) == [shape EXCEPT !.broken = { stem }]

Shapes ==
    { Single, Scenario, Cycle, SelfInclude, Diamond, NoApp, TwoApps }
    \cup { MagicChain(f) : f \in FlagModes }
    \cup { MagicThroughInclude(f) : f \in FlagModes }
    \cup { MagicCycle(f) : f \in FlagModes }
    \cup { Unresolved(f) : f \in FlagModes }
    \cup { Broken(Diamond, "items"), Broken(MagicChain(OwnFlags), "items") }

Forms == { "alias", "dotted" }

Reverse(seq) == [i \in 1..Len(seq) |-> seq[Len(seq) + 1 - i]]

\* os.walk lists a directory in arbitrary order: sorted and reverse sorted
Walks(shape) ==
    LET keys == [i \in 1..Len(shape.stems) |-> FileKey(shape.stems[i])]
    IN  { keys, Reverse(keys) }

IdleHarness ==
    /\ jn = << >>
    /\ ir = << >>
    /\ ty = << >>
    /\ gr = << >>
    /\ fm = << >>
    /\ fz = << >>

\* ProjectScanner.__init__
Init ==
    /\ \E shape \in Shapes, form \in Forms, style \in Styles :
          /\ tree = ProjectTree(shape, form, style)
          /\ walk \in Walks(shape)
    /\ files = << >>
    /\ endpoints = << >>
    /\ parent_child = << >>
    /\ global_includes_children = { }
    /\ apps = << >>
    /\ stack = << >>
    /\ visited = { }
    /\ pc = "scan"
    /\ output = << >>
    /\ IdleHarness

Next ==
    \/ ScanFile
    \/ BuildHierarchy
    \/ ResolveFallback
    \/ ResolveApps
    \/ StartTraversal
    \/ EnterRouter
    \/ IncludeStep
    \/ MagicGate
    \/ MagicStep
    \/ Return
    \/ DumpOutput

Spec == Init /\ [][Next]_vars

(***************************************************************************)
(* Path-join harness: the concatenations of one branch of _resolve_router, *)
(* with operands drawn from fragments with leading, trailing and interior  *)
(* slashes                                                                 *)
(***************************************************************************)
IdleScanner ==
    /\ tree = << >>
    /\ walk = << >>
    /\ files = << >>
    /\ endpoints = << >>
    /\ parent_child = << >>
    /\ global_includes_children = { }
    /\ apps = << >>
    /\ stack = << >>
    /\ visited = { }
    /\ pc = "idle"
    /\ output = << >>

Bodies == { << >>, << "a" >>, << "a", "/", "b" >>, << "a", "/", "/", "b" >> }

SlashRuns == { 0, 1, MaxSlashes }

\* prefixes and paths as a source file may declare them
Fragments == { Slashes(i) \o body \o Slashes(j) : i \in SlashRuns, j \in SlashRuns, body \in Bodies }

JoinInit ==
    /\ IdleScanner
    /\ jn = [prefix |-> << >>, cur |-> None, level |-> 0, n |-> 0,
             kind |-> "entry", a |-> << >>, b |-> << >>, out |-> << >>]
    /\ ir = << >>
    /\ ty = << >>
    /\ gr = << >>
    /\ fm = << >>
    /\ fz = << >>

\* line 97: the router is entered with the incoming prefix
JoinRouterPrefix ==
    /\ jn.cur = None
    /\ \E rprefix \in Fragments :
          LET current_prefix == CurrentPrefix(jn.prefix, rprefix)
          IN  jn' = [jn EXCEPT !.cur = current_prefix, !.kind = "router",
                               !.a = jn.prefix, !.b = rprefix, !.out = current_prefix]
    /\ UNCHANGED << scanVars, ir, ty, gr, fm, fz >>

\* lines 99-101: one route of the router
JoinRoutePath ==
    /\ jn.cur # None
    /\ \E path \in Fragments :
          jn' = [jn EXCEPT !.kind = "route", !.a = jn.cur, !.b = path,
                           !.out = RouteFullPath(jn.cur, path)]
    /\ UNCHANGED << scanVars, ir, ty, gr, fm, fz >>

\* line 108: a manual inclusion; the target is resolved next
JoinInclude ==
    /\ jn.cur # None
    /\ jn.n < MaxJoins
    /\ \E incprefix \in Fragments :
          LET new_prefix == IncludePrefix(jn.cur, incprefix)
          IN  jn' = [jn EXCEPT !.prefix = new_prefix, !.cur = None, !.n = @ + 1,
                               !.kind = "include", !.a = jn.cur, !.b = incprefix,
                               !.out = new_prefix]
    /\ UNCHANGED << scanVars, ir, ty, gr, fm, fz >>

\* lines 116-118: a magic child; the child is resolved next, one level deeper
JoinChild ==
    /\ jn.cur # None
    /\ jn.n < MaxJoins
    /\ LET new_prefix == MagicPrefix(jn.cur, jn.level)
       IN  jn' = [jn EXCEPT !.prefix = new_prefix, !.cur = None, !.n = @ + 1,
                            !.level = @ + 1, !.kind = "child", !.a = jn.cur,
                            !.b = ChildPrefix(jn.level), !.out = new_prefix]
    /\ UNCHANGED << scanVars, ir, ty, gr, fm, fz >>

JoinNext ==
    \/ JoinRouterPrefix
    \/ JoinRoutePath
    \/ JoinInclude
    \/ JoinChild

JoinSpec == JoinInit /\ [][JoinNext]_vars

(***************************************************************************)
(* Import-resolver harness: resolve_module on dotted references over file  *)
(* maps that hold single-file and package forms of the same prefixes       *)
(***************************************************************************)
Chain == << "a", "b", "c", "Widget", "inner", "x" >>

Dotted(names) == join([i \in 1..Len(names) |-> << names[i] >>], ".")

Refs ==
    { Dotted(SubSeq(Chain, 1, n)) : n \in 0..MaxParts }
        \cup { << "z" >>, << "a", ".", "z" >>, << "a", ".", "b", ".", "z", ".", "c" >> }

ModuleFile(names) == join([i \in 1..Len(names) |-> << names[i] >>], "/") \o << ".py" >>

PackageFile(names) ==
    join([i \in 1..Len(names) |-> << names[i] >>], "/") \o << "/", "__init__", ".py" >>

KnownFiles ==
    { ModuleFile(SubSeq(Chain, 1, n)) : n \in 1..3 }
        \cup { PackageFile(SubSeq(Chain, 1, n)) : n \in 1..3 }

ImportInit ==
    /\ IdleScanner
    /\ \E known \in SUBSET KnownFiles, module_str \in Refs :
          ir = [known |-> known, module_str |-> module_str, resolved |-> FALSE,
                result |-> Absent]
    /\ jn = << >>
    /\ ty = << >>
    /\ gr = << >>
    /\ fm = << >>
    /\ fz = << >>

\* ImportResolver.resolve_module(module_str, current_file)
ResolveModule ==
    /\ ~ ir.resolved
    /\ ir' = [ir EXCEPT !.resolved = TRUE,
                        !.result = resolve_module(ir.module_str, ir.known)]
    /\ UNCHANGED << scanVars, jn, ty, gr, fm, fz >>

ImportNext == ResolveModule

ImportSpec == ImportInit /\ [][ImportNext]_vars

(***************************************************************************)
(* Type-resolver harness: one file with a child and a parent class, read   *)
(* by the visitor and resolved by find_model_fields                        *)
(***************************************************************************)
ModelsFile == << "models", ".py" >>

ChildX  == SchemaField(<< "x" >>, << "int" >>, TRUE)
ChildZ  == SchemaField(<< "z" >>, << "bool" >>, FALSE)
ParentX == SchemaField(<< "x" >>, << "str" >>, TRUE)
ParentY == SchemaField(<< "y" >>, << "float" >>, TRUE)

ChildNames == { << "Child" >>, << "ChildModel" >> }
ParentNames == { << "Parent" >>, << "ParentModel" >> }
ChildFieldLists == { << ChildX >>, << ChildX, ChildZ >> }
ParentFieldLists == { << ParentX, ParentY >>, << ParentY, ParentX >> }
ParentBaseLists == { << >>, << << "BaseModel" >> >> }
ChildBaseLists(parent) ==
    { << parent >>, << parent, << "BaseModel" >> >>, << << "BaseModel" >>, parent >> }

TypeInit ==
    /\ IdleScanner
    /\ \E child \in ChildNames, parent \in ParentNames,
          cf \in ChildFieldLists, pf \in ParentFieldLists,
          pb \in ParentBaseLists, parent_first \in BOOLEAN :
          \E cb \in ChildBaseLists(parent) :
             LET c == ClassDef(child, cb, cf)
                 q == ClassDef(parent, pb, pf)
             IN  ty = [source |-> Source(TRUE, IF parent_first THEN << q, c >> ELSE << c, q >>),
                       child |-> child, parent |-> parent, cbases |-> cb, pbases |-> pb,
                       cfields |-> cf, pfields |-> pf,
                       step |-> "source", fd |-> FileData(ModelsFile), result |-> << >>]
    /\ jn = << >>
    /\ ir = << >>
    /\ gr = << >>
    /\ fm = << >>
    /\ fz = << >>

\* ASTVisitor(rel_path).visit(tree): the classes of the file
TypeScan ==
    /\ ty.step = "source"
    /\ ty' = [ty EXCEPT !.step = "scanned",
                        !.fd = visit(ASTVisitor(ModelsFile), ty.source.body).fd]
    /\ UNCHANGED << scanVars, jn, ir, gr, fm, fz >>

\* TypeResolver.find_model_fields(file_data, model_name)
TypeResolve ==
    /\ ty.step = "scanned"
    /\ ty' = [ty EXCEPT !.step = "resolved",
                        !.result = find_model_fields(<< << ModelsFile, ty.fd >> >>,
                                                     ModelsFile, ty.child, { })]
    /\ UNCHANGED << scanVars, jn, ir, gr, fm, fz >>

TypeNext ==
    \/ TypeScan
    \/ TypeResolve

TypeSpec == TypeInit /\ [][TypeNext]_vars

(***************************************************************************)
(* Model-field harness: two scanned files, a.py and b.py, with models that *)
(* inherit from one another, import one another and shadow one another,    *)
(* and find_model_fields run on them one call, one base and one return at  *)
(* a time                                                                  *)
(***************************************************************************)
FileA == << "a", ".py" >>
FileB == << "b", ".py" >>

ChildModel  == << "ChildModel" >>
ParentModel == << "ParentModel" >>
MixinModel  == << "MixinModel" >>
UserSchema  == << "UserSchema" >>
BaseModel   == << "BaseModel" >>
Plain       == << "Plain" >>

ChildX2 == SchemaField(<< "x" >>, << "float" >>, FALSE)
MixinY  == SchemaField(<< "y" >>, << "int" >>, FALSE)
MixinW  == SchemaField(<< "w" >>, << "str" >>, TRUE)
PlainP  == SchemaField(<< "p" >>, << "int" >>, TRUE)
RemoteY == SchemaField(<< "y" >>, << "bytes" >>, TRUE)
RemoteV == SchemaField(<< "v" >>, << "int" >>, TRUE)

FieldChildFields == { << ChildX >>, << ChildX, ChildZ >>, << ChildX, ChildZ, ChildX2 >> }
FieldChildBases ==
    { << ParentModel >>, << ParentModel, MixinModel >>, << MixinModel, ParentModel >>,
      << Plain, ParentModel >>, << ChildModel, ParentModel >> }
FieldParentBases ==
    { << >>, << BaseModel >>, << MixinModel >>, << ChildModel >>, << ParentModel >>,
      << ChildModel, MixinModel >> }
\* where MixinModel comes from, as a.py sees it
MixinPlaces ==
    { "local", "imported", "aliased", "module", "cycle", "loop", "external", "both",
      "absent" }
FieldQueries == { ChildModel, ParentModel, MixinModel, BaseModel }

\* the import of MixinModel in a.py
MixinImport(place) ==
    CASE place \in { "imported", "cycle", "loop", "both" } ->
            << ImportFrom(<< "b" >>, MixinModel, None) >>
      [] place = "aliased"  -> << ImportFrom(<< "b" >>, UserSchema, MixinModel) >>
      [] place = "module"   -> << Import(<< "b" >>, MixinModel) >>
      [] place = "external" -> << ImportFrom(<< "pydantic" >>, MixinModel, None) >>
      [] OTHER -> << >>

SourceA(place, cb, cf, pb, pf) ==
    Source(TRUE,
           << ImportFrom(<< "pydantic" >>, BaseModel, None) >>
           \o MixinImport(place)
           \o << ClassDef(Plain, << BaseModel >>, << PlainP >>),
                 ClassDef(ChildModel, cb, cf),
                 ClassDef(ParentModel, pb, pf) >>
           \o (IF place \in { "local", "both" }
               THEN << ClassDef(MixinModel, << BaseModel >>, << MixinY, MixinW >>) >>
               ELSE << >>))

SourceB(place) ==
    Source(TRUE,
           CASE place \in { "imported", "module", "both" } ->
                   << ClassDef(MixinModel, << BaseModel >>, << RemoteY, RemoteV >>) >>
             [] place = "aliased" ->
                   << ClassDef(UserSchema, << BaseModel >>, << RemoteY, RemoteV >>),
                      ClassDef(MixinModel, << BaseModel >>, << MixinW >>) >>
             [] place = "cycle" -> << ImportFrom(<< "a" >>, MixinModel, None) >>
             [] place = "loop" ->
                   << ImportFrom(<< "a" >>, ChildModel, None),
                      ClassDef(MixinModel, << ChildModel >>, << RemoteY >>) >>
             [] OTHER -> << >>)

\* an activation record of find_model_fields
FieldFrame(file_path, model_name, vis) ==
    [file |-> file_path, model |-> model_name, visited |-> vis, lp |-> "enter",
     fields |-> << >>, bases |-> << >>, i |-> 1]

FieldInit ==
    /\ IdleScanner
    /\ \E place \in MixinPlaces, cb \in FieldChildBases, cf \in FieldChildFields,
          pb \in FieldParentBases, pf \in ParentFieldLists, query \in FieldQueries :
          fm = [a |-> SourceA(place, cb, cf, pb, pf), b |-> SourceB(place),
                place |-> place, file |-> FileA, model |-> query, step |-> "source",
                files |-> << >>, stack |-> << >>, ret |-> << >>, result |-> << >>]
    /\ jn = << >>
    /\ ir = << >>
    /\ ty = << >>
    /\ gr = << >>
    /\ fz = << >>

FieldTop == fm.stack[Len(fm.stack)]
FieldPop == SubSeq(fm.stack, 1, Len(fm.stack) - 1)
FieldSetTop(f) == [fm.stack EXCEPT ![Len(fm.stack)] = f]

\* scan(): both files parsed and stored under their relative paths
FieldScan ==
    /\ fm.step = "source"
    /\ fm' = [fm EXCEPT !.step = "ready",
                        !.files = << << FileA, visit(ASTVisitor(FileA), fm.a.body).fd >>,
                                     << FileB, visit(ASTVisitor(FileB), fm.b.body).fd >> >>]
    /\ UNCHANGED << scanVars, jn, ir, ty, gr, fz >>

\* the caller's find_model_fields(file_data, model_name): visited = set()
FindStart ==
    /\ fm.step = "ready"
    /\ fm' = [fm EXCEPT !.step = "running",
                        !.stack = << FieldFrame(fm.file, fm.model, { }) >>]
    /\ UNCHANGED << scanVars, jn, ir, ty, gr, fz >>

\* entry of find_model_fields: the guard, then the local or the imported case
FindEnter ==
    /\ fm.step = "running"
    /\ fm.stack # << >>
    /\ FieldTop.lp = "enter"
    /\ LET f         == FieldTop
           file_data == Get(fm.files, f.file)
           model_id  == << f.file, f.model >>
           vis1      == f.visited \cup { model_id }
       IN  IF Len(fm.stack) > MaxDepth
           THEN fm' = [fm EXCEPT !.step = "RecursionError"]
           ELSE IF SeenModel(model_id, f.visited)
           THEN fm' = [fm EXCEPT !.stack = FieldPop, !.ret = << >>]
           ELSE IF Has(file_data.models, f.model)
           THEN LET model_def == Get(file_data.models, f.model)
                IN  fm' = [fm EXCEPT !.stack = FieldSetTop(
                                 [f EXCEPT !.visited = vis1, !.lp = "bases",
                                           !.fields = field_dict(<< >>, model_def.fields),
                                           !.bases = model_def.bases, !.i = 1])]
           ELSE IF Has(file_data.imports, f.model)
           THEN LET imp_str == Get(file_data.imports, f.model)
                    res     == resolve_module(imp_str, Keys(fm.files))
                IN  IF Truthy(res.file) /\ Has(fm.files, res.file)
                    THEN fm' = [fm EXCEPT !.stack =
                                   FieldSetTop([f EXCEPT !.visited = vis1, !.lp = "tail"])
                                   \o << FieldFrame(res.file,
                                                    target_symbol(res.member, f.model),
                                                    vis1) >>]
                    ELSE fm' = [fm EXCEPT !.stack = FieldPop, !.ret = << >>]
           ELSE fm' = [fm EXCEPT !.stack = FieldPop, !.ret = << >>]
    /\ UNCHANGED << scanVars, jn, ir, ty, gr, fz >>

\* one round of "for base in model_def['bases']" up to the recursive call
FindBase ==
    /\ fm.step = "running"
    /\ fm.stack # << >>
    /\ FieldTop.lp = "bases"
    /\ FieldTop.i <= Len(FieldTop.bases)
    /\ LET f    == FieldTop
           base == f.bases[f.i]
       IN  IF HasMarker(base)
           THEN fm' = [fm EXCEPT !.stack =
                          FieldSetTop([f EXCEPT !.lp = "merge"])
                          \o << FieldFrame(f.file, base, f.visited) >>]
           ELSE fm' = [fm EXCEPT !.stack = FieldSetTop([f EXCEPT !.i = @ + 1])]
    /\ UNCHANGED << scanVars, jn, ir, ty, gr, fz >>

\* the base's fields are back: add those whose name is not yet present
FindMerge ==
    /\ fm.step = "running"
    /\ fm.stack # << >>
    /\ FieldTop.lp = "merge"
    /\ fm' = [fm EXCEPT !.stack =
                 FieldSetTop([FieldTop EXCEPT !.fields = add_missing(@, fm.ret),
                                              !.i = @ + 1, !.lp = "bases"])]
    /\ UNCHANGED << scanVars, jn, ir, ty, gr, fz >>

\* return list(fields.values())
FindReturn ==
    /\ fm.step = "running"
    /\ fm.stack # << >>
    /\ FieldTop.lp = "bases"
    /\ FieldTop.i > Len(FieldTop.bases)
    /\ fm' = [fm EXCEPT !.stack = FieldPop, !.ret = Values(FieldTop.fields)]
    /\ UNCHANGED << scanVars, jn, ir, ty, gr, fz >>

\* return self.find_model_fields(self.files[target_file], target_name, visited)
FindTail ==
    /\ fm.step = "running"
    /\ fm.stack # << >>
    /\ FieldTop.lp = "tail"
    /\ fm' = [fm EXCEPT !.stack = FieldPop]
    /\ UNCHANGED << scanVars, jn, ir, ty, gr, fz >>

\* the outermost call has returned
FindFinish ==
    /\ fm.step = "running"
    /\ fm.stack = << >>
    /\ fm' = [fm EXCEPT !.step = "resolved", !.result = fm.ret]
    /\ UNCHANGED << scanVars, jn, ir, ty, gr, fz >>

FieldNext ==
    \/ FieldScan
    \/ FindStart
    \/ FindEnter
    \/ FindBase
    \/ FindMerge
    \/ FindReturn
    \/ FindTail
    \/ FindFinish

FieldSpec == FieldInit /\ [][FieldNext]_vars

(***************************************************************************)
(* Finalization harness: one file with a CRUD router, the default schemas  *)
(* registered on it and one route, resolved through an entry point that    *)
(* includes the router or, without entry point, in fallback mode           *)
(***************************************************************************)
ApiFile == << "api", ".py" >>
ApiRouter == << "router" >>
ApiApp == << "app" >>

FzMethods == { "get", "post", "put", "delete" }
FzPaths == { << "/" >>, << "/", "{id}" >>, << >>, << "/", "{pk}" >>, << "/", "items" >> }
\* router prefix and inclusion prefix
FzPrefixes == { << << >>, << >> >>, << << "/", "users" >>, << "/", "api" >> >> }
FzKinds == { "list", "retrieve", "create", "update" }
FzRegistered == { FzKinds, { }, { "create", "list" }, { "update", "retrieve" } }

\* the model registered as the default of a kind
FzDefault(kind) ==
    CASE kind = "create"   -> ChildModel
      [] kind = "update"   -> ParentModel
      [] kind = "list"     -> MixinModel
      [] kind = "retrieve" -> UserSchema

FzRegister(kind) ==
    CASE kind = "create"   -> "register_create_schema"
      [] kind = "update"   -> "register_update_schema"
      [] kind = "list"     -> "register_list_schema"
      [] kind = "retrieve" -> "register_retrieve_schema"

\* router.register_<kind>_schema(<model>)
FzRegistration(kind) ==
    Call(ApiRouter \o << ".", FzRegister(kind) >>, Name(FzDefault(kind)), << >>)

FzSource(with_app, prefixes, registered, meth, path, req, resp) ==
    Source(TRUE,
           << ImportFrom(<< "pydantic" >>, BaseModel, None),
              ClassDef(ChildModel, << BaseModel >>, << ChildX >>),
              ClassDef(ParentModel, << BaseModel >>, << ParentY >>),
              ClassDef(MixinModel, << BaseModel >>, << MixinW >>),
              ClassDef(UserSchema, << BaseModel >>, << RemoteV >>),
              ClassDef(Plain, << BaseModel >>, << PlainP >>),
              Assign(ApiRouter, << "CrudAPIRouter" >>, prefixes[1], None) >>
           \o (IF "list" \in registered THEN << FzRegistration("list") >> ELSE << >>)
           \o (IF "retrieve" \in registered THEN << FzRegistration("retrieve") >> ELSE << >>)
           \o (IF "create" \in registered THEN << FzRegistration("create") >> ELSE << >>)
           \o (IF "update" \in registered THEN << FzRegistration("update") >> ELSE << >>)
           \o << Route(ApiRouter \o << ".", meth >>, path, 10, req, resp, NoDeps) >>
           \o (IF with_app
               THEN << Assign(ApiApp, << "FastAPI" >>, << >>, None),
                       Call(ApiApp \o << ".", "include_router" >>, Name(ApiRouter),
                            prefixes[2]) >>
               ELSE << >>))

FzInit ==
    /\ IdleScanner
    /\ \E with_app \in BOOLEAN, prefixes \in FzPrefixes, registered \in FzRegistered,
          meth \in FzMethods, path \in FzPaths,
          req \in { None, Plain }, resp \in { None, Plain } :
          fz = [tree |-> << << ApiFile,
                               FzSource(with_app, prefixes, registered, meth, path,
                                        req, resp) >> >>,
                registered |-> registered, method |-> Upper(meth), path |-> path,
                req |-> req, resp |-> resp,
                step |-> "source", files |-> << >>, endpoints |-> << >>]
    /\ jn = << >>
    /\ ir = << >>
    /\ ty = << >>
    /\ gr = << >>
    /\ fm = << >>

\* scan()
FzScan ==
    /\ fz.step = "source"
    /\ fz' = [fz EXCEPT !.step = "scanned",
                        !.files = scan_files([files |-> << >>,
                                              global_includes_children |-> { }],
                                             fz.tree, << ApiFile >>).files]
    /\ UNCHANGED << scanVars, jn, ir, ty, gr, fm >>

\* resolve(): every emitted route is finalized
FzResolve ==
    /\ fz.step = "scanned"
    /\ LET env == [global_includes_children |-> { },
                   parent_child |-> build_hierarchy(fz.files, << >>,
                                                    router_list(fz.files, 1, 1))]
           st0 == [files |-> fz.files, endpoints |-> << >>]
           st  == IF app_list(fz.files, 1) = << >>
                  THEN fallback(st0, router_list(fz.files, 1, 1))
                  ELSE resolve_apps(env, st0, app_list(fz.files, 1))
       IN  fz' = [fz EXCEPT !.step = "resolved", !.files = st.files,
                            !.endpoints = st.endpoints]
    /\ UNCHANGED << scanVars, jn, ir, ty, gr, fm >>

FzNext ==
    \/ FzScan
    \/ FzResolve

FzSpec == FzInit /\ [][FzNext]_vars

(***************************************************************************)
(* Dependency-graph harness: file maps of 0..MaxFiles scanned files spread *)
(* over folders, importing one another                                     *)
(***************************************************************************)
DecDigit == << "0", "1", "2", "3", "4", "5", "6", "7", "8", "9" >>

RECURSIVE Num(_)
Num(n) == IF n < 10 THEN << DecDigit[n + 1] >> ELSE Num(n \div 10) \o << DecDigit[(n % 10) + 1] >>

\* file i of a tree with k folders (k = 0: every file at the root); with top,
\* file 1 lies in the scanned root itself, next to the folders
ModuleOf(i, k, top) ==
    IF k = 0 \/ (top /\ i = 1) THEN << "m" >> \o Num(i)
    ELSE << "pkg" >> \o Num(((i - 1) % k) + 1) \o << "." >> \o << "m" >> \o Num(i)

RelPath(i, k, top) == join(split(ModuleOf(i, k, top), "."), "/") \o << ".py" >>

ImportPatterns == { "none", "next", "hub" }

GraphSource(i, n, k, top, pattern) ==
    Source(TRUE,
        CASE pattern = "none" -> << >>
          [] pattern = "next" ->
                << Import(<< "sqlalchemy" >>, None),
                   Import(ModuleOf((i % n) + 1, k, top), None) >>
          [] pattern = "hub" ->
                IF i = 1 THEN << >> ELSE << Import(ModuleOf(1, k, top), << "hub" >>) >>)

GraphFileMap(n, k, top, pattern) ==
    [i \in 1..n |->
        << RelPath(i, k, top),
           visit(ASTVisitor(RelPath(i, k, top)), GraphSource(i, n, k, top, pattern).body).fd >>]

\* the folder layouts: number of folders, and whether file 1 is at the root
Layouts == { << 0, FALSE >>, << 1, FALSE >>, << 3, FALSE >>, << 1, TRUE >> }

Roots == { << "/", "proj" >>, << "/" >> }

GraphInit ==
    /\ IdleScanner
    /\ \E n \in 0..MaxFiles, lay \in Layouts, pattern \in ImportPatterns, root \in Roots :
          gr = [file_map |-> GraphFileMap(n, lay[1], lay[2], pattern), root |-> root,
                step |-> "scanned", graph |-> [nodes |-> << >>, edges |-> << >>],
                again |-> [nodes |-> << >>, edges |-> << >>]]
    /\ jn = << >>
    /\ ir = << >>
    /\ ty = << >>
    /\ fm = << >>
    /\ fz = << >>

GenerateGraph ==
    /\ gr.step = "scanned"
    /\ LET g     == file_graph(gr.file_map, gr.root)
           edges == IF needs_aggregation(g.nodes) THEN folder_edges(g.nodes, g.edges) ELSE { }
       IN  \E order \in Orders(edges) :
              gr' = [gr EXCEPT !.step = "done",
                               !.graph = generate_dependency_graph(gr.file_map, gr.root, order)]
    /\ UNCHANGED << scanVars, jn, ir, ty, fm, fz >>

\* a second run of the generation over the same, unchanged file map
GenerateGraphAgain ==
    /\ gr.step = "done"
    /\ LET g     == file_graph(gr.file_map, gr.root)
           edges == IF needs_aggregation(g.nodes) THEN folder_edges(g.nodes, g.edges) ELSE { }
       IN  \E order \in Orders(edges) :
              gr' = [gr EXCEPT !.step = "twice",
                               !.again = generate_dependency_graph(gr.file_map, gr.root, order)]
    /\ UNCHANGED << scanVars, jn, ir, ty, fm, fz >>

GraphNext ==
    \/ GenerateGraph
    \/ GenerateGraphAgain

GraphSpec == GraphInit /\ [][GraphNext]_vars

(***************************************************************************)
(* Vocabulary of the properties                                            *)
(***************************************************************************)
Done == pc = "done"

RouterAt(ref) == Get(Get(files, ref.file).routers, ref.var)

Routers == { router_list(files, 1, 1)[i] : i \in 1..Len(router_list(files, 1, 1)) }

DeclaredRoutes ==
    UNION { { RouteRef(r.file, r.var, k) : k \in 1..Len(RouterAt(r).routes) } : r \in Routers }

EntryPoints == { app_list(files, 1)[i] : i \in 1..Len(app_list(files, 1)) }

Occurrences(ref) == Cardinality({ i \in 1..Len(endpoints) : endpoints[i] = ref })

\* the routers a router leads to: resolvable manual inclusions ...
ManualTargets(x) ==
    { resolve_router_ref(files, Get(files, x.file), RouterAt(x).includes[i].router_var) :
        i \in 1..Len(RouterAt(x).includes) } \ { NoRouter }

\* ... and the registered children, when nesting is switched on for it
MagicTargets(x) ==
    LET id   == FQID(x.file, x.var)
        kids == IF Has(parent_child, id) THEN Get(parent_child, id) ELSE << >>
    IN  IF RouterAt(x).includes_children \/ id \in global_includes_children
        THEN { r \in Routers : \E i \in 1..Len(kids) : kids[i] = FQID(r.file, r.var) }
        ELSE { }

Targets(x) == ManualTargets(x) \cup MagicTargets(x)

RECURSIVE ReachFrom(_)
ReachFrom(set) ==
    LET more == set \cup UNION { Targets(x) : x \in set }
    IN  IF more = set THEN set ELSE ReachFrom(more)

Reachable(e) == ReachFrom({ e })

RECURSIVE SumOver(_, _, _, _)
RECURSIVE NumPaths(_, _, _)
\* number of cycle-free paths from x to target that avoid the routers in seen
NumPaths(x, target, seen) ==
    IF x = target THEN 1
    ELSE SumOver(Targets(x) \ seen, target, seen, 0)

SumOver(ys, target, seen, acc) ==
    IF ys = { } THEN acc
    ELSE LET y == CHOOSE z \in ys : TRUE
         IN  SumOver(ys \ { y }, target, seen, acc + NumPaths(y, target, seen \cup { y }))

RECURSIVE SumSet(_, _)
SumSet(f, set) ==
    IF set = { } THEN 0
    ELSE LET y == CHOOSE z \in set : TRUE IN f[y] + SumSet(f, set \ { y })

Owner(ref) == [file |-> ref.file, var |-> ref.var]

(***************************************************************************)
(* C1  Scenario: app.py binds `app`, users.py defines `router` with prefix *)
(* "/users" and one GET route at "/", app.py includes `users.router` with  *)
(* prefix "": the output is exactly one route, GET with full_path /users.  *)
(* The tree below is that project with the inclusion written as in the     *)
(* scenario, app.include_router(users.router, prefix="").                  *)
(***************************************************************************)
ScenarioTree == ProjectTree(Scenario, "dotted", "plain")

\* C1: the scenario's output is exactly one route, GET with full_path /users
C1_ScenarioSingleRoute ==
    (Done /\ tree = ScenarioTree)
        => /\ Len(output) = 1
           /\ output[1].method = "GET"
           /\ output[1].full_path = << "/", "users" >>

\* the same project with  from users import router as users_router
C1_ScenarioWithAlias ==
    (Done /\ tree = ProjectTree(Scenario, "alias", "plain"))
        => /\ Len(output) = 1
           /\ output[1].method = "GET"
           /\ output[1].full_path = << "/", "users" >>

(***************************************************************************)
(* C2  resolve() terminates for every finite Fact Store, also when the     *)
(* manual-inclusion graph or the parent->child graph has a cycle: every    *)
(* step of the run strictly decreases a tuple of naturals in the           *)
(* lexicographic order (so no run goes on forever, and every entry-point   *)
(* traversal returns), and the run never stops in a RecursionError.        *)
(***************************************************************************)
Phase ==
    CASE pc = "scan" -> 4 [] pc = "resolve" -> 3 [] pc = "traverse" -> 2
      [] pc = "print" -> 1 [] OTHER -> 0

Unvisited == Cardinality({ r \in Routers : FQID(r.file, r.var) \notin visited })

KidsOf(f) ==
    IF Has(parent_child, FQID(f.file, f.var))
    THEN Len(Get(parent_child, FQID(f.file, f.var))) ELSE 0

\* what is left to do in one activation of _resolve_router
Work(f) ==
    CASE f.lp = "enter"    -> 1
      [] f.lp = "includes" -> 2 * (Len(RouterAt(f).includes) + 1 - f.i) + 2 * KidsOf(f) + 2
      [] f.lp = "magic"    -> 2 * (Len(f.kids) + 1 - f.i) + 1

RECURSIVE StackWork(_)
StackWork(k) == IF k = 0 THEN 0 ELSE Work(stack[k]) + StackWork(k - 1)

Measure ==
    << Phase, Len(walk) + Len(apps),
       IF pc = "traverse" THEN Unvisited ELSE 0,
       IF pc = "traverse" THEN StackWork(Len(stack)) ELSE 0 >>

Less(m, n) ==
    \E k \in 1..4 : m[k] < n[k] /\ \A j \in 1..(k - 1) : m[j] = n[j]

\* C2: resolve() terminates: every step decreases Measure, a tuple of naturals
\* ordered lexicographically, and the run never ends in a RecursionError
C2_Terminates ==
    /\ [][Less(Measure', Measure)]_vars
    /\ [](pc \in { "scan", "resolve", "traverse", "print", "done" })

HasCycle == \E x \in Routers : \E y \in Targets(x) : x \in Reachable(y)

\* the run is over for a project whose entry point reaches a cycle
C2_WitnessCycleDone ==
    /\ Done
    /\ \E e \in EntryPoints : \E x \in Reachable(e) : \E y \in Targets(x) : x \in Reachable(y)
    /\ Len(output) > 2

(***************************************************************************)
(* C3  Within one entry-point traversal a route is emitted once for each   *)
(* distinct cycle-free inclusion path from the entry point to its router   *)
(* (original statement), so over all traversals its number of occurrences  *)
(* in the output is the number of such paths from the entry points.        *)
(***************************************************************************)
\* C3: a route is emitted once per cycle-free inclusion path from an entry point
C3_OncePerPath ==
    Done /\ EntryPoints # { } =>
        \A ref \in DeclaredRoutes :
            Occurrences(ref) =
                SumSet([e \in EntryPoints |-> NumPaths(e, Owner(ref), { e })], EntryPoints)

(***************************************************************************)
(* C3 (amended)  Within one entry-point traversal a route is emitted       *)
(* exactly once when its router is reachable from the entry point, however *)
(* many inclusion paths lead to it, and not at all otherwise; a cycle adds *)
(* no emission.  Over all traversals: once per entry point that reaches it.*)
(***************************************************************************)
\* C3 (amended): a route is emitted once per entry point that reaches its router
C3_OncePerTraversal ==
    Done /\ EntryPoints # { } =>
        \A ref \in DeclaredRoutes :
            Occurrences(ref) = Cardinality({ e \in EntryPoints : Owner(ref) \in Reachable(e) })

\* a router with two cycle-free paths from the single entry point, emitted
C3_WitnessTwoPaths ==
    /\ Done
    /\ \E e \in EntryPoints : \E ref \in DeclaredRoutes :
          /\ EntryPoints = { e }
          /\ NumPaths(e, Owner(ref), { e }) = 2
          /\ Occurrences(ref) = 1

(***************************************************************************)
(* C4  Magic nesting prefix: the level is 0 at every entry point, passes   *)
(* unchanged through a manual inclusion and grows by one per magic         *)
(* parent->child step; a child reached by a magic step from a router       *)
(* traversed at level L gets the incoming prefix                           *)
(* <parent's combined prefix>/{p<L+1>_pk}, and its routes lie under it.    *)
(***************************************************************************)
IsPrefix(p, q) == Len(p) <= Len(q) /\ SubSeq(q, 1, Len(p)) = p

PkSegment(n) == << "{p", Digits[n], "_pk}" >>

\* C4: level 0 at the entry, unchanged by inclusion, +1 per magic step, and the
\* child's incoming prefix is <parent's combined prefix>/{p<L+1>_pk}
C4_MagicNesting ==
    pc = "traverse" =>
    \A k \in 1..Len(stack) :
        LET ch == stack[k] IN
        IF k = 1 THEN ch.level = 0 /\ ch.prefix = << >>
        ELSE LET par == stack[k - 1]
                 under == rstrip(par.current_prefix, "/") \o << "/" >> \o PkSegment(par.level + 1)
             IN  IF par.lp = "magic"
                 THEN /\ ch.level = par.level + 1
                      /\ ch.prefix = under
                      /\ ch.lp # "enter" =>
                            /\ IsPrefix(under, ch.current_prefix)
                            /\ \A j \in 1..Len(RouterAt(ch).routes) :
                                  IsPrefix(under, RouterAt(ch).routes[j].full_path)
                 ELSE ch.level = par.level

\* a grandchild (level 2) reached through a manual inclusion at level 1
C4_WitnessGrandchild ==
    /\ pc = "traverse"
    /\ \E k \in 2..Len(stack) :
          /\ stack[k].level = 2
          /\ stack[k].lp # "enter"
          /\ stack[k - 1].lp = "magic"
          /\ \E j \in 1..(k - 1) : stack[j].lp = "includes" /\ stack[j].level = 1
          /\ Len(RouterAt(stack[k]).routes) > 0

(***************************************************************************)
(* C5  Fallback mode: when no file has an app variable bound to one of its *)
(* routers, the output has exactly one entry for every declared route of   *)
(* every router of every file, each with full_path equal to its            *)
(* route-local path and with finalization applied.                         *)
(***************************************************************************)
GroupedOf(deps) == deps.services \o deps.database \o deps.external \o deps.utilities

\* C5: without entry points every declared route is output exactly once,
\* unprefixed and finalized
C5_Fallback ==
    (Done /\ EntryPoints = { }) =>
        /\ Len(output) = Cardinality(DeclaredRoutes)
        /\ \A ref \in DeclaredRoutes : Occurrences(ref) = 1
        /\ \A i \in 1..Len(output) :
              LET route == RouteAt(files, endpoints[i]) IN
              /\ output[i].full_path = output[i].path
              /\ output[i].path = route.path
              /\ output[i].dependencies.grouped = GroupedOf(output[i].dependencies)
              /\ Truthy(route.response_model_name) =>
                    output[i].response_schema =
                        find_model_fields(files, route.file_path, route.response_model_name, { })

C5_WitnessFallback ==
    /\ Done
    /\ EntryPoints = { }
    /\ Len(output) >= 4
    /\ \E i \in 1..Len(output) : output[i].path # << >> /\ output[i].path[1] # "/"
    /\ \E i \in 1..Len(output) : output[i].response_schema # << >>

(***************************************************************************)
(* C6  Import Resolver search order: the result is the first known file    *)
(* key met when the prefix lengths are tried from the longest to the       *)
(* shortest and, at each length, <candidate>.py before                     *)
(* <candidate>/__init__.py; with a/b.py and a/b/c.py known, "a.b.c.Widget" *)
(* resolves to (a/b/c.py, Widget), not to a/b.py.                          *)
(***************************************************************************)
RefParts == IF ir.module_str = << >> THEN << >> ELSE split(ir.module_str, ".")

\* the candidates in search order: position 2k-1 is the single-file form and
\* 2k the package form of the k-th longest prefix
Candidates ==
    [p \in 1..(2 * Len(RefParts)) |->
        LET len == Len(RefParts) - ((p - 1) \div 2)
            pre == join(SubSeq(RefParts, 1, len), "/")
        IN  IF p % 2 = 1 THEN pre \o << ".py" >> ELSE pre \o << "/", "__init__", ".py" >>]

\* C6: the result is the first known candidate, longest prefix first and .py
\* before /__init__.py; a.b.c.Widget resolves to (a/b/c.py, Widget)
C6_LongestPrefixFileFirst ==
    ir.resolved =>
        /\ IF \E p \in 1..Len(Candidates) : Candidates[p] \in ir.known
           THEN \E p \in 1..Len(Candidates) :
                   /\ Candidates[p] \in ir.known
                   /\ \A q \in 1..(p - 1) : Candidates[q] \notin ir.known
                   /\ ir.result.file = Candidates[p]
           ELSE ir.result = Absent
        /\ ( /\ ir.module_str = Dotted(<< "a", "b", "c", "Widget" >>)
             /\ { ModuleFile(<< "a", "b" >>), ModuleFile(<< "a", "b", "c" >>) } \subseteq ir.known )
              => ir.result = [file |-> ModuleFile(<< "a", "b", "c" >>), member |-> << "Widget" >>]

\* a/b.py, a/b/c.py and the package a/b/c/__init__.py are all known
C6_WitnessWidget ==
    /\ ir.resolved
    /\ ir.module_str = Dotted(<< "a", "b", "c", "Widget" >>)
    /\ { ModuleFile(<< "a", "b" >>), ModuleFile(<< "a", "b", "c" >>),
         PackageFile(<< "a", "b", "c" >>) } \subseteq ir.known
    /\ ir.result.file = ModuleFile(<< "a", "b", "c" >>)

(***************************************************************************)
(* C7  Inheritance scenario: a model Child with own field x whose base     *)
(* class is named Parent, where Parent (same file) has fields x and y,     *)
(* resolves to exactly two fields: x taken from Child and y from Parent.   *)
(***************************************************************************)
FieldNamed(fields, name) ==
    { fields[i] : i \in { j \in 1..Len(fields) : fields[j].name = name } }

\* the class statement lists a recognised model base, so the visitor records it
ListsBaseModel(bases) == \E i \in 1..Len(bases) : bases[i] = << "BaseModel" >>

\* Child declares x only; Parent is a recorded model of the same file
InheritanceScenario ==
    /\ ty.step = "resolved"
    /\ ListsBaseModel(ty.pbases)
    /\ ty.cfields = << ChildX >>

OwnXParentY ==
    /\ Len(ty.result) = 2
    /\ FieldNamed(ty.result, << "x" >>) = { ChildX }
    /\ FieldNamed(ty.result, << "y" >>) = { ParentY }

Joined == jn.kind \in { "router", "route", "include" }

\* C8: no join of the traversal yields a path that contains "//"
C8_NoDoubleSlash == Joined => ~ HasDoubleSlash(jn.out)

\* a doubled slash between two non-slash characters of the fragment
Interior(s) ==
    \E i \in 2..(Len(s) - 2) :
        /\ s[i] = "/" /\ s[i + 1] = "/"
        /\ \E j \in 1..(i - 1) : s[j] # "/"
        /\ \E k \in (i + 2)..Len(s) : s[k] # "/"

(***************************************************************************)
(* C8 (amended)  The join never puts a doubled slash at the seam or at the *)
(* ends, however many slashes the right operand starts or ends with: the   *)
(* result contains "//" exactly when an operand already has a doubled      *)
(* slash in its interior, which the join keeps.                            *)
(***************************************************************************)
\* C8 (amended): the result contains "//" exactly when an operand has one in
\* its interior
C8_NoSlashAddedAtSeam ==
    Joined => (HasDoubleSlash(jn.out) <=> (Interior(jn.a) \/ Interior(jn.b)))

\* a nested join whose right operand starts and ends with several slashes
C8_WitnessManySlashes ==
    /\ jn.kind = "route"
    /\ jn.n >= 1
    /\ jn.a # << >>
    /\ jn.b = Slashes(MaxSlashes) \o << "a", "/", "b" >> \o Slashes(MaxSlashes)
    /\ ~ HasDoubleSlash(jn.out)

(***************************************************************************)
(* C9  Path join of empty operands is the root path: join("", "") = "/",   *)
(* uniformly for the router-prefix, inclusion-prefix and route-path        *)
(* concatenations.                                                         *)
(***************************************************************************)
\* C9: every concatenation of two empty operands yields "/"
C9_EmptyJoinIsRoot ==
    (Joined /\ jn.a = << >> /\ jn.b = << >>) => jn.out = << "/" >>

OnlySlashes(s) == \A i \in 1..Len(s) : s[i] = "/"

(***************************************************************************)
(* C9 (amended)  Only the route-path concatenation normalizes an empty     *)
(* result to "/": a route whose path is empty or made of slashes, on a     *)
(* router whose combined prefix is empty, gets full_path "/", and no route *)
(* gets an empty full_path; the router-prefix and inclusion-prefix         *)
(* concatenations of empty (or all-slash) operands yield the empty prefix. *)
(***************************************************************************)
\* C9 (amended): the route-path concatenation yields "/", the prefix
\* concatenations yield ""
C9_RootOnlyForRoutes ==
    /\ (jn.kind = "route" /\ jn.a = << >> /\ OnlySlashes(jn.b)) => jn.out = << "/" >>
    /\ jn.kind = "route" => jn.out # << >>
    /\ (jn.kind \in { "router", "include" } /\ jn.a = << >> /\ OnlySlashes(jn.b))
          => jn.out = << >>

\* an empty route path under an empty router prefix included with an empty prefix
C9_WitnessEmptyRoute ==
    /\ jn.kind = "route"
    /\ jn.n >= 1
    /\ jn.prefix = << >>
    /\ jn.a = << >>
    /\ jn.b = << >>
    /\ jn.out = << "/" >>

(***************************************************************************)
(* C10  Graph aggregation threshold: the dependency graph is               *)
(* folder-aggregated exactly when the file-level node count exceeds 30     *)
(* (30 files give a file-level graph, 31 or 40 a folder-level graph), and  *)
(* in the aggregated graph every node has type "folder".                   *)
(***************************************************************************)
NodeTypes == { gr.graph.nodes[i].type : i \in 1..Len(gr.graph.nodes) }

NodeIds == { gr.graph.nodes[i].id : i \in 1..Len(gr.graph.nodes) }

\* C10: the graph is folder-level, with every node of type "folder", exactly
\* when there are more than 30 file nodes
C10_AggregateAbove30 ==
    gr.step = "done" =>
        LET n == Len(gr.file_map) IN
        IF n > 30
        THEN /\ NodeTypes = { "folder" }
             /\ Len(gr.graph.nodes) < n
             /\ \A i \in 1..n : abs_path(gr.root, gr.file_map[i][1]) \notin NodeIds
        ELSE /\ NodeTypes \subseteq { "file" }
             /\ NodeIds = { abs_path(gr.root, gr.file_map[i][1]) : i \in 1..n }
             /\ Len(gr.graph.nodes) = n

\* 31 files in three folders, importing one another
C10_Witness31Files ==
    /\ gr.step = "done"
    /\ Len(gr.file_map) = 31
    /\ NodeTypes = { "folder" }
    /\ Len(gr.graph.nodes) = 3
    /\ Len(gr.graph.edges) >= 2

(***************************************************************************)
(* C11  Determinism: two runs of the pipeline over the same unchanged file *)
(* set produce identical output: the same graph nodes and edges in the     *)
(* same order, also for the folder-aggregated graph.  (The route list of a *)
(* run is computed without any choice from the tree and the order of the   *)
(* directory listing; the graph is where two runs can differ.)             *)
(***************************************************************************)
\* C11: the second run's graph equals the first run's, nodes and edges in
\* the same order
C11_SameGraphTwice == gr.step = "twice" => gr.again = gr.graph

\* two runs over more than 30 files whose folder-level edges come out in
\* different orders
C11_WitnessEdgeOrder ==
    /\ gr.step = "twice"
    /\ Len(gr.file_map) > 30
    /\ gr.again.nodes = gr.graph.nodes
    /\ gr.again.edges # gr.graph.edges
    /\ { gr.again.edges[i] : i \in 1..Len(gr.again.edges) }
         = { gr.graph.edges[i] : i \in 1..Len(gr.graph.edges) }

(***************************************************************************)
(* C12  The children-call set is independent of the scan order: for every  *)
(* include_child_router call whose receiver is a router variable imported  *)
(* from another file, the FQID recorded in the global set is the FQID of   *)
(* that router in its defining file, whether the defining file was scanned *)
(* before or after the calling file.                                       *)
(***************************************************************************)
\* the receivers of the include_child_router calls written in a file
CallsOf(key) == visit(ASTVisitor(key), Get(tree, key).body).include_child_calls

\* the calls of a scanned file whose receiver is an imported router variable,
\* with the router it names in the complete Fact Store
ImportedReceivers ==
    { << k, c >> \in UNION { { << k, c >> : c \in CallsOf(k) } : k \in Keys(files) } :
        /\ ~ Has(Get(files, k).routers, c)
        /\ resolve_router_ref(files, Get(files, k), c) # NoRouter }

\* C12: once the scan is over, the set holds the defining file's FQID of every
\* imported router that received the call
C12_ChildCallsOrderFree ==
    pc # "scan" =>
        \A kc \in ImportedReceivers :
            LET t == resolve_router_ref(files, Get(files, kc[1]), kc[2])
            IN  FQID(t.file, t.var) \in global_includes_children

\* the calling file was scanned before the defining file, and the set holds
\* the import alias under the calling file's key instead
C12_WitnessScannedBefore ==
    /\ pc = "done"
    /\ \E kc \in ImportedReceivers :
          LET t == resolve_router_ref(files, Get(files, kc[1]), kc[2])
          IN  /\ FQID(t.file, t.var) \notin global_includes_children
              /\ FQID(kc[1], kc[2]) \in global_includes_children
              /\ \E i, j \in 1..Len(files) :
                    i < j /\ files[i][1] = kc[1] /\ files[j][1] = t.file

(***************************************************************************)
(* C13  Resolution does not mutate facts: after resolve() every file,      *)
(* router and route of the Fact Store (each route's model names,           *)
(* dependency categories and path included) equals its value at the end of *)
(* scanning; derived values exist only on the emitted route values.        *)
(***************************************************************************)
\* the facts of a file as the scan stored them
ScannedFacts(key) == visit(ASTVisitor(key), Get(tree, key).body).fd

\* C13: from the end of the scan on, the Fact Store holds the scanned facts
C13_FactsUnchanged ==
    pc # "scan" => \A i \in 1..Len(files) : files[i][2] = ScannedFacts(files[i][1])

\* a route object emitted by two traversals: the stored route carries the
\* path written by the second one, and both output entries show it
C13_WitnessSharedRoute ==
    /\ pc = "done"
    /\ \E i, j \in 1..Len(endpoints) :
          /\ i < j
          /\ endpoints[i] = endpoints[j]
          /\ RouteAt(files, endpoints[i]).full_path # << >>
          /\ RouteAt(files, endpoints[i])
                # RouteAt(<< << endpoints[i].file, ScannedFacts(endpoints[i].file) >> >>,
                          endpoints[i])
          /\ output[i] = output[j]

(***************************************************************************)
(* C14  An unresolvable inclusion is ignored, not fatal: a manual          *)
(* inclusion whose target is neither a local router nor an import that     *)
(* resolves to a router of a known file raises no error, emits no route    *)
(* for that edge, and the traversal still processes the router's remaining *)
(* inclusions and its magic children.                                      *)
(***************************************************************************)
\* the running activation is at an inclusion whose target does not resolve
AtUnresolvable ==
    /\ pc = "traverse"
    /\ stack # << >>
    /\ Top.lp = "includes"
    /\ LET fd == Get(files, Top.file)
           r  == Get(fd.routers, Top.var)
       IN  /\ Top.i <= Len(r.includes)
           /\ resolve_router_ref(files, fd, r.includes[Top.i].router_var) = NoRouter

HasUnresolvable(x) ==
    \E i \in 1..Len(RouterAt(x).includes) :
        resolve_router_ref(files, Get(files, x.file), RouterAt(x).includes[i].router_var)
            = NoRouter

\* C14: the step at an unresolvable inclusion only moves on to the next
\* inclusion, and a traversed router with such an inclusion still has all its
\* resolvable targets and magic children traversed
C14_UnresolvedIgnored ==
    /\ [][AtUnresolvable =>
            /\ pc' = "traverse"
            /\ endpoints' = endpoints
            /\ files' = files
            /\ stack' = SetTop([Top EXCEPT !.i = @ + 1])]_vars
    /\ [](pc \in { "scan", "resolve", "traverse", "print", "done" })
    /\ [](Done =>
            \A x \in Routers :
                (HasUnresolvable(x) /\ FQID(x.file, x.var) \in visited) =>
                    \A y \in Targets(x) : FQID(y.file, y.var) \in visited)

\* an unknown file and a file without the router are included before the
\* router of users.py, whose routes and those of the magic child are emitted
C14_WitnessLaterInclusion ==
    /\ Done
    /\ \E x \in Routers :
          LET incs == RouterAt(x).includes
              fd   == Get(files, x.file)
          IN  /\ Len(incs) = 3
              /\ Has(fd.imports, incs[1].router_var)
              /\ resolve_module(Get(fd.imports, incs[1].router_var), Keys(files)) = Absent
              /\ Has(fd.imports, incs[2].router_var)
              /\ resolve_module(Get(fd.imports, incs[2].router_var), Keys(files)).file
                    \in Keys(files)
              /\ resolve_router_ref(files, fd, incs[1].router_var) = NoRouter
              /\ resolve_router_ref(files, fd, incs[2].router_var) = NoRouter
              /\ resolve_router_ref(files, fd, incs[3].router_var) # NoRouter
              /\ MagicTargets(x) # { }
              /\ \A y \in Targets(x) :
                    /\ RouterAt(y).routes # << >>
                    /\ \A k \in 1..Len(RouterAt(y).routes) :
                          Occurrences(RouteRef(y.file, y.var, k)) = 1

(***************************************************************************)
(* C15  Per-file extraction failure is omission: a file whose extraction   *)
(* fails leaves no entry in the Fact Store and adds nothing to the global  *)
(* children-call set or the parent->child index, the scan continues with   *)
(* the other files, and the resolved output equals the output of scanning  *)
(* the same tree without that file.                                        *)
(***************************************************************************)
BrokenKeys == { tree[i][1] : i \in { k \in 1..Len(tree) : ~ tree[k][2].parses } }

\* the same tree without the files whose extraction fails
Parses(entry) == entry[2].parses

TreeWithoutBroken == SelectSeq(tree, Parses)

\* the order in which the files entered the Fact Store
ScanOrder == [i \in 1..Len(files) |-> files[i][1]]

ScanWithoutBroken ==
    scan_files([files |-> << >>, global_includes_children |-> { }],
               TreeWithoutBroken, ScanOrder)

\* C15: a failing file never enters the Fact Store; after the scan the store,
\* the children-call set and the parent->child index are those of the tree
\* without it, and so is the printed output
C15_FailureIsOmission ==
    /\ \A k \in BrokenKeys : ~ Has(files, k)
    /\ pc \in { "scan", "resolve", "traverse", "print", "done" }
    /\ (pc = "scan" /\ walk = << >>) =>
            /\ Len(files) = Len(TreeWithoutBroken)
            /\ files = ScanWithoutBroken.files
    /\ pc # "scan" =>
            /\ global_includes_children = ScanWithoutBroken.global_includes_children
            /\ parent_child = build_hierarchy(ScanWithoutBroken.files, << >>,
                                  router_list(ScanWithoutBroken.files, 1, 1))
    /\ Done => output = run_output(TreeWithoutBroken, ScanOrder)

\* a file with a router, routes and an include_child_router call fails to
\* parse; the files listed after it are scanned and routes are printed
C15_WitnessBrokenFile ==
    /\ Done
    /\ output # << >>
    /\ Len(files) = Len(tree) - 1
    /\ \E k \in BrokenKeys :
          /\ CallsOf(k) # { }
          /\ ScannedFacts(k).routers # << >>
          /\ \E i, j \in 1..Len(tree) :
                /\ tree[i][1] = k
                /\ i < j
                /\ ScanOrder[j - 1] = tree[j][1]

(***************************************************************************)
(* C16: merge order of the Type Resolver                                   *)
(***************************************************************************)
\* the fields of a list in first-seen order: a name already seen is dropped
RECURSIVE FirstOfName(_, _)
FirstOfName(fields, seen) ==
    IF fields = << >> THEN << >>
    ELSE IF Head(fields).name \in seen THEN FirstOfName(Tail(fields), seen)
    ELSE << Head(fields) >> \o FirstOfName(Tail(fields), seen \cup { Head(fields).name })

\* the last declaration of a name in a class body
LastDeclared(fields, name) ==
    fields[CHOOSE i \in 1..Len(fields) :
              /\ fields[i].name = name
              /\ \A j \in (i + 1)..Len(fields) : fields[j].name # name]

\* each declared name once, at the place of its first declaration and with
\* the type of its last
DeclaredOnce(fields) ==
    LET first == FirstOfName(fields, { })
    IN  [i \in 1..Len(first) |-> LastDeclared(fields, first[i].name)]

\* the base names of the harness that contain a recognized marker
RecognizedBases == { ChildModel, ParentModel, MixinModel, UserSchema, BaseModel }

FieldResolved == fm # << >> /\ fm.step = "resolved"
FieldLocal == FieldResolved /\ Has(Get(fm.files, fm.file).models, fm.model)
QueriedDef == Get(Get(fm.files, fm.file).models, fm.model)

\* the resolved fields of the recognized bases from the i-th on, one base
\* after the other
RECURSIVE BaseFieldsFrom(_)
BaseFieldsFrom(i) ==
    IF i > Len(QueriedDef.bases) THEN << >>
    ELSE (IF QueriedDef.bases[i] \in RecognizedBases
          THEN find_model_fields(fm.files, fm.file, QueriedDef.bases[i],
                                 { << fm.file, fm.model >> })
          ELSE << >>)
         \o BaseFieldsFrom(i + 1)

\* C16 as stated: the resolved list of a locally defined model is its own
\* fields as declared, then the resolved fields of each recognized base in
\* declaration order, every name kept where it was first seen
C16_OwnThenBases ==
    FieldLocal => fm.result = FirstOfName(QueriedDef.fields \o BaseFieldsFrom(1), { })

\* C16: the resolved list of a locally defined model is its own fields in
\* declared order (a name declared twice in the class once, where it was
\* first declared, with its last declaration), then, for each base in
\* declaration order whose name has a recognized marker, the base's resolved
\* fields in the base's order whose names are not yet present: own before
\* base, earlier base before later base
C16_OwnOnceThenBases ==
    FieldLocal =>
        /\ fm.result = FirstOfName(DeclaredOnce(QueriedDef.fields) \o BaseFieldsFrom(1), { })
        /\ SubSeq(fm.result, 1, Len(DeclaredOnce(QueriedDef.fields)))
              = DeclaredOnce(QueriedDef.fields)

\* a model with a twice-declared own field and two recognized bases whose
\* fields collide with its own and with each other has been resolved
C16_WitnessCollisions ==
    /\ FieldLocal
    /\ fm.model = ChildModel
    /\ Len(DeclaredOnce(QueriedDef.fields)) < Len(QueriedDef.fields)
    /\ QueriedDef.bases = << ParentModel, MixinModel >>
    /\ LET own == DeclaredOnce(QueriedDef.fields)
           q == find_model_fields(fm.files, fm.file, ParentModel, { << fm.file, fm.model >> })
           m == find_model_fields(fm.files, fm.file, MixinModel, { << fm.file, fm.model >> })
       IN  /\ \E i \in 1..Len(q), j \in 1..Len(m) : q[i].name = m[j].name /\ q[i] # m[j]
           /\ \E i \in 1..Len(q) : q[i].name = own[1].name /\ q[i] # own[1]
           /\ \E i \in 1..Len(q), k \in 1..Len(fm.result) : fm.result[k] = q[i]
           /\ \E j \in 1..Len(m), k \in 1..Len(fm.result) : fm.result[k] = m[j]
           /\ Len(fm.result) = Len(own) + 2

(***************************************************************************)
(* C17: termination of the Type Resolver                                   *)
(***************************************************************************)
\* the (file, model) pairs a call can be about
FieldPairs == { FileA, FileB } \X (RecognizedBases \cup { Plain })

\* the longest list of bases of a scanned model
FieldWidth ==
    LET lens == { Len(bases) : bases \in FieldChildBases \cup FieldParentBases }
    IN  CHOOSE n \in lens : \A m \in lens : m <= n

\* steps a call takes at most when r pairs are not yet in its visited set
RECURSIVE FieldWork(_)
FieldWork(r) == IF r = 0 THEN 1 ELSE 2 + FieldWidth * (2 + FieldWork(r - 1))

\* steps an activation record still takes, the calls it will make included
FrameWork(f) ==
    LET r == Cardinality(FieldPairs \ f.visited)
    IN  CASE f.lp = "enter" -> FieldWork(r)
          [] f.lp = "bases" -> (Len(f.bases) - f.i + 1) * (2 + FieldWork(r)) + 1
          [] f.lp = "merge" -> (Len(f.bases) - f.i) * (2 + FieldWork(r)) + 2
          [] f.lp = "tail"  -> 1

RECURSIVE FieldStackWork(_)
FieldStackWork(k) ==
    IF k = 0 THEN 0 ELSE FrameWork(fm.stack[k]) + FieldStackWork(k - 1)

FieldMeasure ==
    CASE fm.step = "source"  -> FieldWork(Cardinality(FieldPairs)) + 3
      [] fm.step = "ready"   -> FieldWork(Cardinality(FieldPairs)) + 2
      [] fm.step = "running" -> FieldStackWork(Len(fm.stack)) + 1
      [] OTHER -> 0

\* the guard of one of the steps holds
FieldCanStep ==
    \/ fm.step \in { "source", "ready" }
    \/ fm.step = "running" /\ fm.stack = << >>
    \/ /\ fm.step = "running" /\ fm.stack # << >>
       /\ \/ FieldTop.lp \in { "enter", "merge", "tail" }
          \/ FieldTop.lp = "bases" /\ FieldTop.i <= Len(FieldTop.bases)
          \/ FieldTop.lp = "bases" /\ FieldTop.i > Len(FieldTop.bases)

\* C17: find_model_fields terminates without error and returns a list of
\* fields on every store: each step of the call decreases a natural number,
\* a call that has not returned can take a step, and it never ends in a
\* RecursionError
C17_FieldsTerminate ==
    /\ [][FieldMeasure' < FieldMeasure /\ FieldMeasure' >= 0]_fm
    /\ [](fm.step # "resolved" => FieldCanStep)
    /\ [](fm.step \in { "source", "ready", "running", "resolved" })
    /\ [](fm.step = "resolved" =>
             \A i \in 1..Len(fm.result) : Truthy(fm.result[i].name))

\* a class that lists itself as a base
SelfBase(file_path) ==
    \E i \in 1..Len(Get(fm.files, file_path).models) :
        LET entry == Get(fm.files, file_path).models[i]
        IN  \E k \in 1..Len(entry[2].bases) : entry[2].bases[k] = entry[1]

\* two classes of a.py that list each other as a base
MutualBases ==
    LET models == Get(fm.files, FileA).models
    IN  /\ Has(models, ChildModel) /\ Has(models, ParentModel)
        /\ \E k \in 1..Len(Get(models, ChildModel).bases) :
              Get(models, ChildModel).bases[k] = ParentModel
        /\ \E k \in 1..Len(Get(models, ParentModel).bases) :
              Get(models, ParentModel).bases[k] = ChildModel

\* a.py imports the name from b.py and b.py imports it from a.py
AliasCycle(name) ==
    /\ Has(Get(fm.files, FileA).imports, name)
    /\ Has(Get(fm.files, FileB).imports, name)
    /\ resolve_module(Get(Get(fm.files, FileA).imports, name), Keys(fm.files)).file = FileB
    /\ resolve_module(Get(Get(fm.files, FileB).imports, name), Keys(fm.files)).file = FileA

\* the resolution of a model has returned that is its own base and whose
\* other base inherits from it and from an alias that a.py and b.py import
\* from each other
C17_WitnessSelfAndMutual ==
    /\ FieldResolved
    /\ fm.model = ChildModel
    /\ SelfBase(FileA)
    /\ MutualBases
    /\ AliasCycle(MixinModel)
    /\ \E k \in 1..Len(Get(Get(fm.files, FileA).models, ParentModel).bases) :
          Get(Get(fm.files, FileA).models, ParentModel).bases[k] = MixinModel
    /\ fm.result # << >>

(***************************************************************************)
(* C18: the imported case of the Type Resolver                             *)
(***************************************************************************)
\* the queried name is not defined in the starting file but imported there
FieldImported ==
    /\ FieldResolved
    /\ ~ Has(Get(fm.files, fm.file).models, fm.model)
    /\ Has(Get(fm.files, fm.file).imports, fm.model)

\* what the Import Resolver returns for the queried alias
QueriedImport ==
    resolve_module(Get(Get(fm.files, fm.file).imports, fm.model), Keys(fm.files))

\* the symbol the alias stands for in the target file
QueriedTarget ==
    IF QueriedImport.member # None THEN QueriedImport.member ELSE fm.model

\* C18: a name that is not defined in the starting file but is an import
\* alias there resolves to the field list of the target symbol (the member
\* the Import Resolver returns, else the name itself) in the file the Import
\* Resolver returns, and to the empty list when the Import Resolver returns
\* nothing; a name that is defined in the starting file resolves from that
\* definition even when it is an alias too
C18_ImportedCase ==
    /\ FieldImported /\ QueriedImport.file # None =>
          fm.result = find_model_fields(fm.files, QueriedImport.file, QueriedTarget, { })
    /\ FieldImported /\ QueriedImport.file = None => fm.result = << >>
    /\ FieldLocal /\ Has(Get(fm.files, fm.file).imports, fm.model) =>
          /\ SubSeq(fm.result, 1, Len(DeclaredOnce(QueriedDef.fields)))
                = DeclaredOnce(QueriedDef.fields)
          /\ \A k \in 1..Len(fm.result) :
                \/ \E i \in 1..Len(QueriedDef.fields) : fm.result[k] = QueriedDef.fields[i]
                \/ \E j \in 1..Len(BaseFieldsFrom(1)) : fm.result[k] = BaseFieldsFrom(1)[j]

\* an alias of a.py that names another symbol of b.py than the alias itself,
\* b.py defining both with different fields, has been resolved to the
\* imported symbol's fields
C18_WitnessAliasedMember ==
    /\ FieldImported
    /\ QueriedImport.file = FileB
    /\ QueriedImport.member = UserSchema
    /\ fm.model = MixinModel
    /\ Has(Get(fm.files, FileB).models, MixinModel)
    /\ Get(Get(fm.files, FileB).models, MixinModel).fields
          # Get(Get(fm.files, FileB).models, UserSchema).fields
    /\ fm.result = Get(Get(fm.files, FileB).models, UserSchema).fields
    /\ fm.result # << >>

(***************************************************************************)
(* C19: the member returned by the Import Resolver                         *)
(***************************************************************************)
\* some prefix of the reference is a known file, in one of the two forms
SomePrefixKnown == \E p \in 1..Len(Candidates) : Candidates[p] \in ir.known

\* the number of parts of the prefix that matched: the longest known one
MatchedParts ==
    LET p == CHOOSE q \in 1..Len(Candidates) :
                 /\ Candidates[q] \in ir.known
                 /\ \A o \in 1..(q - 1) : Candidates[o] \notin ir.known
    IN  Len(RefParts) - ((p - 1) \div 2)

\* the parts after the matched prefix, dotted
Remainder == join(SubSeq(RefParts, MatchedParts + 1, Len(RefParts)), ".")

\* C19: when a prefix of the reference matches a known file, all the parts
\* after it become the member (a.b.c.Widget with only a/b.py known gives
\* c.Widget), the member is absent exactly when the whole reference matched,
\* and when no prefix matches both the file key and the member are absent
C19_MemberIsRemainder ==
    ir.resolved =>
        IF SomePrefixKnown
        THEN /\ ir.result.file # None
             /\ MatchedParts < Len(RefParts) => ir.result.member = Remainder
             /\ ir.result.member = None <=> MatchedParts = Len(RefParts)
        ELSE ir.result = Absent

\* a reference with two parts left after the longest known prefix
C19_WitnessTwoLeft ==
    /\ ir.resolved
    /\ ir.module_str = Dotted(<< "a", "b", "c", "Widget" >>)
    /\ ir.known = { ModuleFile(<< "a", "b" >>) }
    /\ ir.result.file = ModuleFile(<< "a", "b" >>)
    /\ ir.result.member = << "c" >>
    /\ Remainder = << "c", ".", "Widget" >>

(***************************************************************************)
(* C20: default schemas in finalization                                    *)
(***************************************************************************)
FzResolved == fz # << >> /\ fz.step = "resolved"

\* the route object after resolve()
FzRoute == RouteAt(fz.files, fz.endpoints[1])

\* the default registered on the owning router for a kind, if any
FzRegisteredDefault(kind) == IF kind \in fz.registered THEN FzDefault(kind) ELSE None

\* the fields of a model of api.py, by its name
FzFields(name) ==
    IF name = None THEN << >> ELSE Get(Get(fz.files, ApiFile).models, name).fields

\* C20: a route without an explicit request (response) model name gets the
\* owning router's default only on an exact match of method and route-local
\* path: POST "/" the create default and PUT "/{id}" the update default as
\* request model, GET "/" the list default and GET "/{id}" the retrieve
\* default as response model; the path matched is the route's own, not the
\* resolved full path; an explicit model name is never replaced
C20_DefaultsByLocalPath ==
    FzResolved =>
        /\ Len(fz.endpoints) = 1
        /\ FzRoute.path = fz.path
        /\ FzRoute.request_model_name =
              (IF fz.req # None THEN fz.req
               ELSE IF fz.method = "POST" /\ fz.path = << "/" >>
               THEN FzRegisteredDefault("create")
               ELSE IF fz.method = "PUT" /\ fz.path = << "/", "{id}" >>
               THEN FzRegisteredDefault("update")
               ELSE None)
        /\ FzRoute.response_model_name =
              (IF fz.resp # None THEN fz.resp
               ELSE IF fz.method = "GET" /\ fz.path = << "/" >>
               THEN FzRegisteredDefault("list")
               ELSE IF fz.method = "GET" /\ fz.path = << "/", "{id}" >>
               THEN FzRegisteredDefault("retrieve")
               ELSE None)
        /\ FzRoute.request_schema = FzFields(FzRoute.request_model_name)
        /\ FzRoute.response_schema = FzFields(FzRoute.response_model_name)

\* a POST "/" route without explicit models under non-empty prefixes has got
\* the create default although its full path is not "/"
C20_WitnessPrefixedCreate ==
    /\ FzResolved
    /\ fz.method = "POST" /\ fz.path = << "/" >>
    /\ fz.req = None
    /\ FzRoute.full_path = << "/", "api", "/", "users" >>
    /\ FzRoute.request_model_name = ChildModel
    /\ FzRoute.request_schema = << ChildX >>
    /\ FzRoute.response_model_name = None

(***************************************************************************)
(* C21  The cycle guard is scoped per entry point: every router bound to   *)
(* the app variable of its own file starts its own traversal with an empty *)
(* visited set, so a router reachable from two entry points is expanded in *)
(* both traversals and each of its routes appears in the output once for   *)
(* each entry point that reaches it.                                       *)
(***************************************************************************)
EntryList == app_list(files, 1)

\* the entry point whose traversal is running or has just returned
CurrentEntry == EntryList[Len(EntryList) - Len(apps)]

Ids(set) == { FQID(x.file, x.var) : x \in set }

Reaching(ref) == { e \in EntryPoints : Owner(ref) \in Reachable(e) }

\* C21: each entry point's traversal starts at the entry point with an empty
\* visited set and expands exactly the routers reachable from it, also those
\* an earlier traversal expanded; a route is output once per entry point that
\* reaches its router
C21_GuardPerEntryPoint ==
    /\ [][(stack = << >> /\ stack' # << >>) =>
            /\ Head(apps) \in EntryPoints
            /\ stack' = << Frame(Head(apps).file, Head(apps).var, << >>, 0) >>
            /\ visited' = { }]_vars
    /\ [](pc = "traverse" =>
            \E n \in 0..Len(EntryList) : apps = SubSeq(EntryList, n + 1, Len(EntryList)))
    /\ []((pc = "traverse" /\ stack = << >> /\ Len(apps) < Len(EntryList)) =>
            visited = Ids(Reachable(CurrentEntry)))
    /\ [](Done =>
            \A ref \in DeclaredRoutes :
                Cardinality(Reaching(ref)) >= 2 =>
                    Occurrences(ref) = Cardinality(Reaching(ref)))

\* two entry points reach the same router, whose route is printed twice
C21_WitnessTwoEntryPoints ==
    /\ Done
    /\ \E ref \in DeclaredRoutes :
          /\ Cardinality(Reaching(ref)) = 2
          /\ Owner(ref) \notin EntryPoints
          /\ Occurrences(ref) = 2
          /\ \E x \in Routers : ref.file # x.file /\ Owner(ref) \in ManualTargets(x)
                                /\ x \notin EntryPoints

(***************************************************************************)
(* The path by which a depth-first traversal first reaches a router.  The  *)
(* edges of a router are its resolvable manual inclusions in list order    *)
(* followed, when nesting is switched on for it, by its registered         *)
(* children in registration order; the first path from an entry point to a *)
(* router is the cycle-free path that takes the earliest possible edge at  *)
(* every router on it.                                                     *)
(***************************************************************************)
Resolvable(edge) == edge.to \in Routers

IncEdges(x) ==
    LET fd   == Get(files, x.file)
        incs == RouterAt(x).includes
    IN  SelectSeq([i \in 1..Len(incs) |->
                      [to |-> resolve_router_ref(files, fd, incs[i].router_var),
                       kind |-> "include", prefix |-> incs[i].prefix]],
                  Resolvable)

KidEdges(x) ==
    LET id   == FQID(x.file, x.var)
        kids == IF (RouterAt(x).includes_children \/ id \in global_includes_children)
                   /\ Has(parent_child, id)
                THEN Get(parent_child, id) ELSE << >>
    IN  SelectSeq([i \in 1..Len(kids) |->
                      [to |-> [file |-> split(kids[i], ":")[1], var |-> split(kids[i], ":")[2]],
                       kind |-> "child", prefix |-> << >>]],
                  Resolvable)

Edges(x) == IncEdges(x) \o KidEdges(x)

NoPath == [found |-> FALSE, path |-> << >>]

RECURSIVE FirstPath(_, _, _)
RECURSIVE FirstVia(_, _, _, _)
\* the first cycle-free path from x to target that avoids the routers in onpath:
\* the edges taken, each with its position among the edges of its source
FirstPath(x, target, onpath) ==
    IF x = target THEN [found |-> TRUE, path |-> << >>]
    ELSE FirstVia(x, target, onpath, 1)

FirstVia(x, target, onpath, i) ==
    LET edges == Edges(x) IN
    IF i > Len(edges) THEN NoPath
    ELSE LET edge == edges[i]
             sub  == IF edge.to \in onpath THEN NoPath
                     ELSE FirstPath(edge.to, target, onpath \cup { edge.to })
         IN  IF sub.found
             THEN [found |-> TRUE,
                   path |-> << [pos |-> i, kind |-> edge.kind, prefix |-> edge.prefix,
                                to |-> edge.to] >> \o sub.path]
             ELSE FirstVia(x, target, onpath, i + 1)

PathFrom(e, x) == FirstPath(e, x, { e }).path

RECURSIVE PrefixAlong(_, _, _)
\* the combined prefix at the end of a path that starts with combined prefix
\* cur at nesting level
PrefixAlong(cur, level, path) ==
    IF path = << >> THEN cur
    ELSE LET edge == Head(path)
             incoming == IF edge.kind = "include" THEN IncludePrefix(cur, edge.prefix)
                         ELSE MagicPrefix(cur, level)
         IN  PrefixAlong(CurrentPrefix(incoming, RouterAt(edge.to).prefix),
                         IF edge.kind = "include" THEN level ELSE level + 1,
                         Tail(path))

\* the combined prefix of router x in the traversal of entry point e
FirstPrefix(e, x) ==
    PrefixAlong(CurrentPrefix(<< >>, RouterAt(e).prefix), 0, PathFrom(e, x))

\* the full path the traversal of entry point e computes for a route
FullPathFrom(e, ref) ==
    RouteFullPath(FirstPrefix(e, Owner(ref)), RouteAt(files, ref).path)

EntryIndex(e) == CHOOSE i \in 1..Len(EntryList) : EntryList[i] = e

\* the last entry point, in Fact Store order, that reaches the route's router
LastReaching(ref) ==
    CHOOSE e \in Reaching(ref) : \A o \in Reaching(ref) : EntryIndex(o) <= EntryIndex(e)

(***************************************************************************)
(* C22  Last write wins on a route reached twice: when the same route is   *)
(* reached by two traversal occurrences that compute different full paths, *)
(* then after resolve() the route's derived fields hold the values of the  *)
(* last occurrence, and every output entry for that route shows that same  *)
(* last full_path.                                                         *)
(***************************************************************************)
\* C22: at the end the stored route carries the full path computed by the
\* traversal of the last entry point that reaches it, finalized, and every
\* output entry of the route prints that value
C22_LastWriteWins ==
    Done =>
        \A ref \in DeclaredRoutes :
            Reaching(ref) # { } =>
                LET route == RouteAt(files, ref)
                    last  == FullPathFrom(LastReaching(ref), ref)
                IN  /\ route.full_path = last
                    /\ route = finalize_route(files, [route EXCEPT !.full_path = last])
                    /\ \A i \in 1..Len(endpoints) :
                          endpoints[i] = ref =>
                              /\ output[i] = to_dict(route)
                              /\ output[i].full_path = last

\* a route reached from two entry points under two different full paths: both
\* output entries print the one of the later entry point
C22_WitnessTwoFullPaths ==
    /\ Done
    /\ \E ref \in DeclaredRoutes : \E e1, e2 \in Reaching(ref) :
          /\ EntryIndex(e1) < EntryIndex(e2)
          /\ FullPathFrom(e1, ref) # FullPathFrom(e2, ref)
          /\ Occurrences(ref) = 2
          /\ RouteAt(files, ref).full_path = FullPathFrom(e2, ref)
          /\ \A i \in 1..Len(endpoints) :
                endpoints[i] = ref => output[i].full_path = FullPathFrom(e2, ref)

(***************************************************************************)
(* C23  Magic nesting is gated: the traversal descends from a router into  *)
(* the children registered for it in the parent->child index only if the   *)
(* router's own includes_children flag is set or its FQID is in the global *)
(* children-call set; a child registered under a parent for which neither  *)
(* holds contributes no routes through nesting.                            *)
(***************************************************************************)
Gated(x) ==
    RouterAt(x).includes_children \/ FQID(x.file, x.var) \in global_includes_children

\* the routers registered as children of x in the parent->child index
RegisteredKids(x) ==
    LET id   == FQID(x.file, x.var)
        kids == IF Has(parent_child, id) THEN Get(parent_child, id) ELSE << >>
    IN  { c \in Routers : \E i \in 1..Len(kids) : kids[i] = FQID(c.file, c.var) }

\* the routers a router includes by hand, one step or more
RECURSIVE IncludedFrom(_)
IncludedFrom(set) ==
    LET more == set \cup UNION { ManualTargets(x) : x \in set }
    IN  IF more = set THEN set ELSE IncludedFrom(more)

\* C23: an activation entered through nesting has a parent with the flag or
\* in the global set and is registered as its child; an activation of a
\* router with neither has no children to go through; and when no router has
\* either, only what the entry points include by hand is output
C23_NestingGated ==
    /\ pc = "traverse" =>
          \A k \in 1..Len(stack) :
              /\ (k > 1 /\ stack[k - 1].lp = "magic") =>
                    /\ Gated(stack[k - 1])
                    /\ Owner(stack[k]) \in RegisteredKids(stack[k - 1])
              /\ (stack[k].lp = "magic" /\ ~ Gated(stack[k])) => stack[k].kids = << >>
    /\ (Done /\ EntryPoints # { }) =>
          \A p \in Routers : \A c \in RegisteredKids(p) :
              (~ Gated(p) /\ \A e \in EntryPoints : c \notin Reachable(e)) =>
                  \A k \in 1..Len(RouterAt(c).routes) :
                      Occurrences(RouteRef(c.file, c.var, k)) = 0
    /\ (Done /\ EntryPoints # { } /\ \A p \in Routers : ~ Gated(p)) =>
          \A i \in 1..Len(endpoints) : Owner(endpoints[i]) \in IncludedFrom(EntryPoints)

\* a traversed router has a registered child with routes, but neither the flag
\* nor an entry in the global set: the child's routes are not output
C23_WitnessUngatedParent ==
    /\ Done
    /\ output # << >>
    /\ \E e \in EntryPoints : \E p \in Reachable(e) : \E c \in RegisteredKids(p) :
          /\ ~ Gated(p)
          /\ c # p
          /\ RouterAt(c).routes # << >>
          /\ \A k \in 1..Len(RouterAt(c).routes) :
                Occurrences(RouteRef(c.file, c.var, k)) = 0

(***************************************************************************)
(* C24  Aggregated graph edges: in the folder-level graph there is an edge *)
(* (F, G) exactly when some file directly in folder F has a resolved       *)
(* import of a file directly in folder G with F different from G; no edge  *)
(* has equal source and target, no (source, target) pair occurs twice, and *)
(* every edge endpoint is the id of a node of the graph.                   *)
(***************************************************************************)
\* the folder a file lies in: its absolute path up to the last slash
Dir(rel_path) ==
    LET path == abs_path(gr.root, rel_path)
        last == CHOOSE k \in 1..Len(path) :
                    path[k] = "/" /\ \A j \in (k + 1)..Len(path) : path[j] # "/"
    IN  SubSeq(path, 1, last - 1)

\* the pairs (importing file, imported file) of the file map
ResolvedImports ==
    { << gr.file_map[i][1], gr.file_map[j][1] >> :
        << i, j >> \in { p \in (1..Len(gr.file_map)) \X (1..Len(gr.file_map)) :
            \E m \in 1..Len(gr.file_map[p[1]][2].imports) :
                resolve_module(gr.file_map[p[1]][2].imports[m][2], Keys(gr.file_map)).file
                    = gr.file_map[p[2]][1] } }

EdgePairs == { << gr.graph.edges[i].source, gr.graph.edges[i].target >> :
                 i \in 1..Len(gr.graph.edges) }

Aggregated == gr.step = "done" /\ Len(gr.file_map) > AggregateThreshold

\* C24: the folder-level edges are exactly the pairs of distinct folders joined
\* by a resolved import, each once, between nodes of the graph
C24_FolderEdges ==
    Aggregated =>
        /\ EdgePairs = { << Dir(p[1]), Dir(p[2]) >> :
                            p \in { q \in ResolvedImports : Dir(q[1]) # Dir(q[2]) } }
        /\ \A i \in 1..Len(gr.graph.edges) : gr.graph.edges[i].source # gr.graph.edges[i].target
        /\ Cardinality(EdgePairs) = Len(gr.graph.edges)
        /\ \A i \in 1..Len(gr.graph.edges) :
              gr.graph.edges[i].source \in NodeIds /\ gr.graph.edges[i].target \in NodeIds

\* the scanned root is "/": a file in it and a file of a folder import one
\* another, and the folder-level graph has no edge
C24_WitnessRootFolder ==
    /\ Aggregated
    /\ gr.root = << "/" >>
    /\ \E p \in ResolvedImports : Dir(p[1]) = << >> /\ Dir(p[2]) # << >>
    /\ \E p \in ResolvedImports : Dir(p[2]) = << >> /\ Dir(p[1]) # << >>
    /\ gr.graph.edges = << >>
    /\ Len(gr.graph.nodes) = 2

(***************************************************************************)
(* C25  Grouped dependencies: after finalization a route's grouped list    *)
(* equals the concatenation services, database, external, utilities in     *)
(* that order, the tables and apiCalls lists are unchanged, and this still *)
(* holds when the same route is finalized more than once (grouped does not *)
(* grow with repeated finalization).                                       *)
(***************************************************************************)
\* the dependencies of a route as the scan recorded them
ScannedDeps(ref) ==
    Get(ScannedFacts(ref.file).routers, ref.var).routes[ref.k].dependencies

\* C25: a route finalized once or more has the four categories in order as its
\* grouped list and its scanned categories, tables and apiCalls; a route never
\* finalized has no grouped list
C25_GroupedOnce ==
    pc # "scan" =>
        \A ref \in DeclaredRoutes :
            LET deps == RouteAt(files, ref).dependencies
                was  == ScannedDeps(ref)
            IN  IF Occurrences(ref) > 0
                THEN /\ deps.grouped
                          = was.services \o was.database \o was.external \o was.utilities
                     /\ [deps EXCEPT !.grouped = None] = was
                     /\ deps.tables = was.tables
                     /\ deps.apiCalls = was.apiCalls
                ELSE deps = was

\* a route with entries in every category, finalized by two traversals
C25_WitnessFinalizedTwice ==
    /\ Done
    /\ \E ref \in DeclaredRoutes :
          LET deps == RouteAt(files, ref).dependencies
          IN  /\ Occurrences(ref) = 2
              /\ deps.services # << >> /\ deps.database # << >>
              /\ deps.external # << >> /\ deps.utilities # << >>
              /\ deps.tables # << >> /\ deps.apiCalls # << >>
              /\ Len(deps.grouped) = 5
              /\ deps.grouped[1] = deps.services[1]
              /\ deps.grouped[5] = deps.utilities[1]

(***************************************************************************)
(* C26  Within a single entry-point traversal every router is expanded at  *)
(* most once, because one visited set is shared by all branches of that    *)
(* traversal; a router reachable from the entry point through several      *)
(* inclusion or nesting paths contributes each of its routes once, with    *)
(* the prefix of the path that the depth-first traversal reaches first.    *)
(***************************************************************************)
\* the entry points whose traversals are over when that of e runs
EarlierReaching(ref, e) == { o \in Reaching(ref) : EntryIndex(o) < EntryIndex(e) }

Expanded(x) == FQID(x.file, x.var) \in visited

\* C26: at every moment of the traversal of an entry point, the visited routers
\* are reachable from it, each route of a visited router has been emitted once
\* by this traversal (and once by each earlier traversal that reached it) and
\* carries the full path of the first depth-first path from the entry point;
\* the routes of the other routers have not been emitted by this traversal
C26_OncePerTraversalFirstPath ==
    (pc = "traverse" /\ Len(apps) < Len(EntryList)) =>
        LET e == CurrentEntry IN
        /\ visited \subseteq Ids(Reachable(e))
        /\ \A k \in 1..Len(stack) : Owner(stack[k]) \in Reachable(e)
        /\ \A ref \in DeclaredRoutes :
              /\ Occurrences(ref) = Cardinality(EarlierReaching(ref, e))
                                    + (IF Expanded(Owner(ref)) THEN 1 ELSE 0)
              /\ Expanded(Owner(ref)) =>
                    RouteAt(files, ref).full_path = FullPathFrom(e, ref)

\* a router with two paths from the entry point: after the traversal its route
\* was emitted once, under the prefix of the path through the first inclusion
\* and not under the different prefix of the path through the second
C26_WitnessTwoPathsFirstWins ==
    /\ pc = "traverse"
    /\ stack = << >>
    /\ EntryList # << >> /\ apps = << >>
    /\ \E ref \in DeclaredRoutes :
          LET e    == CurrentEntry
              x    == Owner(ref)
              path == PathFrom(e, x)
          IN  /\ NumPaths(e, x, { e }) = 2
              /\ Expanded(x)
              /\ Occurrences(ref) = 1
              /\ Len(path) = 2
              /\ path[1].pos = 1
              /\ RouteAt(files, ref).full_path = FullPathFrom(e, ref)
              /\ \E i \in 2..Len(Edges(e)) :
                    LET y == Edges(e)[i].to
                    IN  \E j \in 1..Len(Edges(y)) :
                           /\ Edges(y)[j].to = x
                           /\ RouteFullPath(
                                 PrefixAlong(CurrentPrefix(<< >>, RouterAt(e).prefix), 0,
                                     << [pos |-> i, kind |-> Edges(e)[i].kind,
                                         prefix |-> Edges(e)[i].prefix, to |-> y],
                                        [pos |-> j, kind |-> Edges(y)[j].kind,
                                         prefix |-> Edges(y)[j].prefix, to |-> x] >>),
                                 RouteAt(files, ref).path)
                              # RouteAt(files, ref).full_path

(***************************************************************************)
(* C27  When at least one entry point exists, a route appears in the       *)
(* output only if its owning router is reachable from some entry point     *)
(* through resolvable manual-inclusion edges or gated magic parent->child  *)
(* edges; routes of every other router (for example a router that no app   *)
(* includes) are absent from the output.                                   *)
(***************************************************************************)
ReachableRouters == UNION { Reachable(e) : e \in EntryPoints }

\* C27: with an entry point, every output entry belongs to a router reachable
\* from an entry point, and the routes of the other routers are neither output
\* nor resolved
C27_OnlyReachableRoutes ==
    (Done /\ EntryPoints # { }) =>
        /\ \A i \in 1..Len(output) :
              /\ Owner(endpoints[i]) \in ReachableRouters
              /\ \E x \in ReachableRouters :
                    /\ output[i].file_path = x.file
                    /\ output[i].router_var = x.var
        /\ \A ref \in DeclaredRoutes :
              Owner(ref) \notin ReachableRouters =>
                  /\ Occurrences(ref) = 0
                  /\ RouteAt(files, ref).full_path = << >>
                  /\ \A i \in 1..Len(output) :
                        ~ (/\ output[i].file_path = ref.file
                           /\ output[i].router_var = ref.var)

\* an application prints the routes of the routers it reaches, and a router
\* with routes that nothing reachable includes or nests is left out
C27_WitnessRouterLeftOut ==
    /\ Done
    /\ EntryPoints # { }
    /\ Len(output) >= 2
    /\ \E x \in Routers \ ReachableRouters :
          /\ RouterAt(x).routes # << >>
          /\ \A y \in ReachableRouters : x \notin ManualTargets(y) /\ x \notin RegisteredKids(y)
          /\ \A i \in 1..Len(output) : output[i].file_path # x.file

(***************************************************************************)
(* C28  Emission order is depth-first pre-order.  In the output of one     *)
(* entry-point traversal, a router's own routes (in declaration order)     *)
(* come before every route contributed through its manual inclusions, the  *)
(* inclusions contribute in inclusion-list order, and every route          *)
(* contributed through its magic children comes after all routes from its  *)
(* manual inclusions; entry points contribute in Fact Store order.         *)
(***************************************************************************)
\* the positions of the edges of the first path from e to x: inclusions are
\* numbered in list order, the children after them in registration order
KeyFrom(e, x) ==
    LET path == PathFrom(e, x)
    IN  SubSeq([i \in 1..Len(path) |-> path[i].pos], 1, Len(path))

\* p is a proper prefix of q, or smaller where they first differ
LexLess(p, q) ==
    \/ Len(p) < Len(q) /\ SubSeq(q, 1, Len(p)) = p
    \/ \E k \in 1..Len(p) :
          /\ k <= Len(q)
          /\ p[k] < q[k]
          /\ \A j \in 1..(k - 1) : p[j] = q[j]

\* pre-order: a router before the routers first reached through it, the
\* subtree of an earlier edge before the subtree of a later one
RouterOrder(e) ==
    LET keyed == { << x, KeyFrom(e, x) >> : x \in Reachable(e) }
    IN  [k \in 1..Cardinality(keyed) |->
            (CHOOSE p \in keyed :
                Cardinality({ q \in keyed : LexLess(q[2], p[2]) }) = k - 1)[1]]

RoutesOf(x) == [k \in 1..Len(RouterAt(x).routes) |-> RouteRef(x.file, x.var, k)]

RECURSIVE RoutesInOrder(_)
RoutesInOrder(routers) ==
    IF routers = << >> THEN << >>
    ELSE RoutesOf(Head(routers)) \o RoutesInOrder(Tail(routers))

\* the files of the Fact Store whose app variable names one of their routers
IsEntryFile(entry) == Truthy(entry[2].app_var) /\ Has(entry[2].routers, entry[2].app_var)

RECURSIVE TraversalsInOrder(_)
TraversalsInOrder(entries) ==
    IF entries = << >> THEN << >>
    ELSE RoutesInOrder(RouterOrder([file |-> Head(entries)[1], var |-> Head(entries)[2].app_var]))
         \o TraversalsInOrder(Tail(entries))

ExpectedEmission == TraversalsInOrder(SelectSeq(files, IsEntryFile))

\* C28: while the entry points are traversed the emitted routes are an initial
\* part of the pre-order listing, entry point after entry point in Fact Store
\* order, and at the end they are the whole listing
C28_PreOrderEmission ==
    /\ (pc = "traverse") => IsPrefix(endpoints, ExpectedEmission)
    /\ (Done /\ EntryPoints # { }) =>
          /\ endpoints = ExpectedEmission
          /\ \A i \in 1..Len(output) :
                /\ output[i].file_path = ExpectedEmission[i].file
                /\ output[i].lineno = RouteAt(files, ExpectedEmission[i]).lineno

\* a router with routes of its own, a resolvable inclusion and a gated child:
\* its routes are printed first, then the included router's, then the child's
C28_WitnessOwnIncludedChild ==
    /\ Done
    /\ \E x \in Routers :
          /\ Len(RouterAt(x).routes) >= 2
          /\ IncEdges(x) # << >>
          /\ KidEdges(x) # << >>
          /\ \E i, j, k \in 1..Len(endpoints) :
                /\ endpoints[i] = RouteRef(x.file, x.var, 1)
                /\ endpoints[i + 1] = RouteRef(x.file, x.var, 2)
                /\ i + 1 < j /\ j < k
                /\ Owner(endpoints[j]) = IncEdges(x)[1].to
                /\ Owner(endpoints[k]) = KidEdges(x)[1].to
                /\ Owner(endpoints[j]) # x /\ Owner(endpoints[k]) # x
                /\ Owner(endpoints[j]) # Owner(endpoints[k])

(***************************************************************************)
(* C29: no field name twice in a resolved field list                       *)
(***************************************************************************)
\* no two positions of a field list carry the same name
DistinctNames(fields) ==
    \A i, j \in 1..Len(fields) : fields[i].name = fields[j].name => i = j

\* the bases of a model of a.py as the Fact Store records them
BasesInA(model) == Get(Get(fm.files, FileA).models, model).bases

\* C29: the list returned by find_model_fields never holds two fields of
\* the same name: neither the list handed back by any call, nested ones
\* included, nor the dict a call is filling, nor the caller's result, for
\* every model queried and every Fact Store (a name declared twice in a
\* class, bases sharing an ancestor, a base behind an import alias)
C29_UniqueFieldNames ==
    fm # << >> =>
        /\ DistinctNames(fm.ret)
        /\ DistinctNames(fm.result)
        /\ \A k \in 1..Len(fm.stack) : DistinctNames(Values(fm.stack[k].fields))

\* ChildModel derives from ParentModel and MixinModel, ParentModel derives
\* from MixinModel too, and MixinModel is b.py's UserSchema under an import
\* alias: the shared ancestor's fields are in the resolved list, once each
C29_WitnessDiamondBehindAlias ==
    /\ FieldResolved
    /\ fm.place = "aliased"
    /\ fm.model = ChildModel
    /\ BasesInA(ChildModel) = << ParentModel, MixinModel >>
    /\ Has(Get(fm.files, FileA).models, ParentModel)
    /\ BasesInA(ParentModel) = << MixinModel >>
    /\ \E i, j \in 1..Len(fm.result) :
          fm.result[i].name = RemoteY.name /\ fm.result[j] = RemoteV
    /\ Len(fm.result) >= 4

(***************************************************************************)
(* C30: shape of the full path of a traversed route                        *)
(***************************************************************************)
\* non-empty, begins with "/", and ends with "/" only when it is "/" itself
WellFormedPath(p) ==
    /\ p # << >>
    /\ p[1] = "/"
    /\ p[Len(p)] = "/" => p = << "/" >>

\* C30: the full_path given to a route by an entry-point traversal is
\* non-empty, begins with "/" and does not end with "/" unless it is exactly
\* "/", whatever slashes lead or trail the router prefixes, the inclusion
\* prefixes and the route path it is joined from
C30_FullPathWellFormed ==
    (jn # << >> /\ jn.kind = "route") => WellFormedPath(jn.out)

\* a route declared at "/a/" on a router whose combined prefix is empty is
\* reported as "/a", and so it is behind an inclusion prefix given with
\* trailing slashes
C30_WitnessTrailingSlashDropped ==
    /\ jn # << >>
    /\ jn.kind = "route"
    /\ jn.b = << "/", "a", "/" >>
    /\ \/ jn.a = << >> /\ jn.out = << "/", "a" >>
       \/ jn.n = 1 /\ jn.a = << "/", "a" >> /\ jn.out = << "/", "a", "/", "a" >>

====
